---- MODULE Spec2Model ----
(***************************************************************************)
(* Appointment booking core of the clinic system: the CSV-backed stores    *)
(* (appointments, doctor schedules, doctors, clinics, notifications), the   *)
(* in-memory IdGenerator, AppointmentRepository and AppointmentService.     *)
(* Stores are sequences of rows in file order.  Time is counted in minutes  *)
(* and a calendar date is a day number.                                     *)
(***************************************************************************)
EXTENDS Integers, Sequences, FiniteSets, TLC

VARIABLES
    appointments,   \* data/appointments.csv: rows in file order
    schedules,      \* data/doctor_schedules.csv
    doctors,        \* data/doctors.csv
    clinics,        \* data/clinics.csv
    notifications,  \* data/notifications.csv
    max_ids,        \* IdGenerator.__max_ids, one table per process
    now,            \* datetime.now(), in minutes
    handles,        \* in-memory Appointment objects held by the caller
    last,           \* the last service call: its arguments and outcome
    hist,           \* SpecStore: what this process allocated and deleted so far
    pc,             \* SpecConc: position of each concurrent caller
    req,            \* SpecConc: the booking each concurrent caller attempts
    buf             \* SpecConc: rows read by append_csv, per caller

vars == <<appointments, schedules, doctors, clinics, notifications,
          max_ids, now, handles, last, hist, pc, req, buf>>

stores == <<appointments, schedules, doctors, clinics, notifications>>

----------------------------------------------------------------------------
(* Bounds and input domains *)

MaxAppointments == 2

MaxClinicRows == 3

Users == {1, 2}

Doctors == {1, 2}

Clinics == {1, 2}

\* the dates bookings are requested for, and the dates availability is asked for
Dates == {1}

QueryDates == {1, 2}

\* the slots bookings are requested for (1-based, as DateUtil numbers them)
SlotInputs == {1, 2}

ValidSlots == 1..16

HandleIds == {1}

\* the processes: Spec runs process 1 alone, SpecConc runs both
Callers == {1, 2}

\* the doctors the administrator deletes
DeletableDoctors == {2}

\* minutes since day 0, 00:00
At(day, hour, minute) == day * 24 * 60 + hour * 60 + minute

\* the instants at which the clock is read, in increasing order: exactly two
\* hours before the first slot of day 1, and one minute later
ClockTicks == <<At(1, 7, 0), At(1, 7, 1)>>

----------------------------------------------------------------------------
(* Values *)

None == <<>>

Some(x) == <<x>>

Scheduled == "Scheduled"

Completed == "Completed"

CancelledByPatient == "Cancelled by Patient"

CancelledByClinic == "Cancelled by Clinic"

EntityTypes == {"appointments", "doctor_schedules", "doctors", "clinics", "notifications"}

AllAvailableHex == <<"f", "f", "f", "f">>

HexDigits == <<"0", "1", "2", "3", "4", "5", "6", "7",
               "8", "9", "a", "b", "c", "d", "e", "f">>

HexDigitValue(ch) == (CHOOSE i \in 1..16 : HexDigits[i] = ch) - 1

RECURSIVE HexToInt(_)
HexToInt(s) ==
    IF s = <<>> THEN 0
    ELSE 16 * HexToInt(SubSeq(s, 1, Len(s) - 1)) + HexDigitValue(s[Len(s)])

Pow2(n) == IF n = 0 THEN 1 ELSE 2 ^ n

BitAnd1(value, shift) == (value \div Pow2(shift)) % 2

SetMin(S) == CHOOSE x \in S : \A y \in S : x <= y

SetMax(S) == CHOOSE x \in S : \A y \in S : x >= y

----------------------------------------------------------------------------
(* Entities *)

Appointment_is_scheduled(a) == a.status = Scheduled

\* a variant of is_cancelled that knows only the patient's cancellation
is_cancelled_by_patient_only(a) == a.status = CancelledByPatient

Appointment_is_cancelled(a) ==
    a.status = CancelledByPatient \/ a.status = CancelledByClinic

Appointment_cancel_by_patient(a) == [a EXCEPT !.status = CancelledByPatient]

\* a variant of is_available that counts the bits from the most significant
is_available_msb_first(time_slots, time_slot_index) ==
    IF time_slots = <<>> THEN "False"
    ELSE IF time_slot_index < 0 THEN "ValueError"
    ELSE IF BitAnd1(HexToInt(time_slots), 15 - time_slot_index) # 0 THEN "True"
    ELSE "False"

\* a variant of is_available that wraps the index into the 16 bits
is_available_wrapping(time_slots, time_slot_index) ==
    IF time_slots = <<>> THEN "False"
    ELSE IF BitAnd1(HexToInt(time_slots), time_slot_index % 16) # 0 THEN "True"
    ELSE "False"

\* a variant of is_available that reads the low byte of the mask only
is_available_low_byte(time_slots, time_slot_index) ==
    IF time_slots = <<>> THEN "False"
    ELSE IF time_slot_index < 0 THEN "ValueError"
    ELSE IF BitAnd1(HexToInt(time_slots) % 256, time_slot_index) # 0 THEN "True"
    ELSE "False"

\* "True" / "False", or "ValueError" for Python's negative shift count
DoctorSchedule_is_available(time_slots, time_slot_index) ==
    IF time_slots = <<>> THEN "False"
    ELSE IF time_slot_index < 0 THEN "ValueError"
    ELSE IF BitAnd1(HexToInt(time_slots), time_slot_index) # 0 THEN "True"
    ELSE "False"

\* format(value, 'x'): lower-case hexadecimal without leading zeros
RECURSIVE IntToHex(_)
IntToHex(value) ==
    IF value < 16 THEN <<HexDigits[value + 1]>>
    ELSE IntToHex(value \div 16) \o <<HexDigits[(value % 16) + 1]>>

\* DoctorSchedule.set_unavailable: the mask with the bit of the index cleared
DoctorSchedule_set_unavailable(time_slots, time_slot_index) ==
    IF time_slots = <<>> THEN time_slots
    ELSE LET time_slots_int == HexToInt(time_slots)
         IN  IntToHex(IF BitAnd1(time_slots_int, time_slot_index) = 1
                      THEN time_slots_int - Pow2(time_slot_index)
                      ELSE time_slots_int)

----------------------------------------------------------------------------
(* DateUtil *)

DateUtil_get_time_from_slot(time_slot) ==
    IF time_slot < 1 \/ time_slot > 16 THEN <<0, 0>>
    ELSE <<9 + ((time_slot - 1) \div 2),
           IF (time_slot - 1) % 2 = 0 THEN 0 ELSE 30>>

DateUtil_datetime_from_date_and_slot(date, time_slot) ==
    LET hm == DateUtil_get_time_from_slot(time_slot)
    IN  At(date, hm[1], hm[2])

\* the bits of value, from bit i to bit 15, as 1-based slots in ascending order
RECURSIVE SlotsFromBit(_, _)
SlotsFromBit(value, i) ==
    IF i >= 16 THEN <<>>
    ELSE (IF BitAnd1(value, i) = 1 THEN <<i + 1>> ELSE <<>>) \o SlotsFromBit(value, i + 1)

\* a variant of hex_to_time_slots that numbers the slots from 0
hex_to_time_slots_zero_based(hex_str) ==
    IF hex_str = <<>> \/ hex_str = <<"0">> THEN <<>>
    ELSE LET slots == SlotsFromBit(HexToInt(hex_str), 0)
         IN  [k \in 1..Len(slots) |-> slots[k] - 1]

\* DateUtil.hex_to_time_slots
DateUtil_hex_to_time_slots(hex_str) ==
    IF hex_str = <<>> \/ hex_str = <<"0">> THEN <<>>
    ELSE SlotsFromBit(HexToInt(hex_str), 0)

\* value |= (1 << (slot - 1)) over the slots of S
RECURSIVE OrOfBits(_)
OrOfBits(S) ==
    IF S = {} THEN 0
    ELSE LET slot == SetMin(S) IN Pow2(slot - 1) + OrOfBits(S \ {slot})

\* DateUtil.time_slots_to_hex: slots outside 1..16 are skipped
DateUtil_time_slots_to_hex(time_slots) ==
    IF time_slots = <<>> THEN <<"0">>
    ELSE IntToHex(OrOfBits({time_slots[i] : i \in 1..Len(time_slots)} \cap (1..16)))

\* DateUtil.get_date_range: days consecutive dates from start_date
DateUtil_get_date_range(start_date, days) == [i \in 1..days |-> start_date + i - 1]

\* DateUtil.get_current_date
DateUtil_get_current_date(current_datetime) == current_datetime \div (24 * 60)

----------------------------------------------------------------------------
(* FileUtil and BaseRepository: whole-file read, whole-file rewrite *)

Files(a, s, d, c, n) ==
    [appointments |-> a, doctor_schedules |-> s, doctors |-> d,
     clinics |-> c, notifications |-> n]

MaxRowId(rows) ==
    IF rows = <<>> THEN 0 ELSE SetMax({rows[i].id : i \in 1..Len(rows)} \cup {0})

IdGenerator_initialize(files) == [t \in EntityTypes |-> MaxRowId(files[t])]

\* an allocator that rescans the file at every call, as FileUtil.get_next_id
next_id_scanning_file(m, files, entity_type) ==
    [id |-> MaxRowId(files[entity_type]) + 1,
     max_ids |-> [t \in EntityTypes |->
                     IF t = entity_type THEN MaxRowId(files[entity_type]) + 1
                     ELSE MaxRowId(files[t])]]

\* the id handed out and the generator's new table
IdGenerator_next_id(m, files, entity_type) ==
    LET m1 == IF DOMAIN m = {} THEN IdGenerator_initialize(files) ELSE m
        next_id == (IF entity_type \in DOMAIN m1 THEN m1[entity_type] ELSE 0) + 1
    IN  [id |-> next_id,
         max_ids |-> [t \in DOMAIN m1 \cup {entity_type} |->
                         IF t = entity_type THEN next_id ELSE m1[t]]]

\* a variant of append_csv that writes the new row alone
append_csv_row_alone(existing_data, row) == <<row>>

\* a variant of append_csv that puts the new row first
append_csv_row_first(existing_data, row) == <<row>> \o existing_data

FileUtil_append_csv(existing_data, row) ==
    IF existing_data = <<>> THEN <<row>> ELSE Append(existing_data, row)

\* row[key] = value for every key of update_data
UpdateKeys(row, update_data) ==
    [key \in DOMAIN row \cup DOMAIN update_data |->
        IF key \in DOMAIN update_data THEN update_data[key] ELSE row[key]]

\* a variant of update_row that applies update_data to every row
update_row_every_row(existing_data, id, update_data) ==
    [i \in 1..Len(existing_data) |-> UpdateKeys(existing_data[i], update_data)]

\* a variant of update_row that adds update_data as a row when no row matches
update_row_or_insert(existing_data, id, update_data) ==
    IF \E i \in 1..Len(existing_data) : existing_data[i].id = id
    THEN [i \in 1..Len(existing_data) |->
             IF existing_data[i].id = id THEN UpdateKeys(existing_data[i], update_data)
             ELSE existing_data[i]]
    ELSE Append(existing_data, update_data)

\* the condition is "the row's id is id", as BaseRepository.update passes it
FileUtil_update_row(existing_data, id, update_data) ==
    [i \in 1..Len(existing_data) |->
        IF existing_data[i].id = id THEN UpdateKeys(existing_data[i], update_data)
        ELSE existing_data[i]]

FileUtil_delete_row(existing_data, id) ==
    LET Keep(row) == row.id # id IN SelectSeq(existing_data, Keep)

\* a variant of get_by_id that takes the id for the position of the row
get_by_id_as_position(rows, entity_id) ==
    IF entity_id \in 1..Len(rows) THEN Some(rows[entity_id]) ELSE None

BaseRepository_get_by_id(rows, entity_id) ==
    LET hits == {i \in 1..Len(rows) : rows[i].id = entity_id}
    IN  IF hits = {} THEN None ELSE Some(rows[SetMin(hits)])

----------------------------------------------------------------------------
(* DoctorScheduleRepository, keyed by (doctor, clinic) *)

DoctorScheduleRepository_get_by_doctor_clinic(scheds, doctor_id, clinic_id) ==
    LET hits == {i \in 1..Len(scheds) :
                    scheds[i].doctor_id = doctor_id /\ scheds[i].clinic_id = clinic_id}
    IN  IF hits = {} THEN None ELSE Some(scheds[SetMin(hits)])

DoctorScheduleRepository_is_slot_available(scheds, doctor_id, clinic_id, time_slot) ==
    LET schedule == DoctorScheduleRepository_get_by_doctor_clinic(scheds, doctor_id, clinic_id)
    IN  IF schedule = None THEN "False"
        ELSE DoctorSchedule_is_available(schedule[1].time_slots, time_slot)

----------------------------------------------------------------------------
(* AppointmentRepository *)

AppointmentRepository_get_by_user(appts, user_id) ==
    LET Mine(a) == a.user_id = user_id IN SelectSeq(appts, Mine)

\* a variant of get_by_doctor_date_slot that matches the 0-based index of the
\* slot against the stored time_slot
get_by_doctor_date_slot_zero_based(appts, doctor_id, date, time_slot) ==
    LET hits == {i \in 1..Len(appts) :
                    /\ appts[i].doctor_id = doctor_id
                    /\ appts[i].date = date
                    /\ appts[i].time_slot = time_slot - 1
                    /\ Appointment_is_scheduled(appts[i])}
    IN  IF hits = {} THEN None ELSE Some(appts[SetMin(hits)])

\* a variant of get_by_doctor_date_slot that takes a row of any status
get_by_doctor_date_slot_any_status(appts, doctor_id, date, time_slot) ==
    LET hits == {i \in 1..Len(appts) :
                    /\ appts[i].doctor_id = doctor_id
                    /\ appts[i].date = date
                    /\ appts[i].time_slot = time_slot}
    IN  IF hits = {} THEN None ELSE Some(appts[SetMin(hits)])

AppointmentRepository_get_by_doctor_date_slot(appts, doctor_id, date, time_slot) ==
    LET hits == {i \in 1..Len(appts) :
                    /\ appts[i].doctor_id = doctor_id
                    /\ appts[i].date = date
                    /\ appts[i].time_slot = time_slot
                    /\ Appointment_is_scheduled(appts[i])}
    IN  IF hits = {} THEN None ELSE Some(appts[SetMin(hits)])

AppointmentRepository_is_slot_booked(appts, doctor_id, date, time_slot) ==
    AppointmentRepository_get_by_doctor_date_slot(appts, doctor_id, date, time_slot) # None

\* a variant of is_slot_available that asks the schedule only
is_slot_available_schedule_only(appts, scheds, doctor_id, clinic_id, date, time_slot) ==
    DoctorScheduleRepository_is_slot_available(scheds, doctor_id, clinic_id, time_slot - 1)

\* a variant of is_slot_available that asks the appointments only
is_slot_available_booked_only(appts, scheds, doctor_id, clinic_id, date, time_slot) ==
    IF AppointmentRepository_is_slot_booked(appts, doctor_id, date, time_slot) THEN "False"
    ELSE "True"

\* "True" / "False" / "ValueError"
AppointmentRepository_is_slot_available(appts, scheds, doctor_id, clinic_id, date, time_slot) ==
    IF AppointmentRepository_is_slot_booked(appts, doctor_id, date, time_slot) THEN "False"
    ELSE DoctorScheduleRepository_is_slot_available(scheds, doctor_id, clinic_id, time_slot - 1)

\* a variant of add_appointment without the guard
add_appointment_unchecked(appts, scheds, doctor_id, clinic_id, date, time_slot) == "add"

\* the outcome of add_appointment's guard: "add", or the error raised
AppointmentRepository_add_appointment_check(appts, scheds, doctor_id, clinic_id, date, time_slot) ==
    LET available == AppointmentRepository_is_slot_available(
                         appts, scheds, doctor_id, clinic_id, date, time_slot)
    IN  IF available = "ValueError" THEN "NegativeShift"
        ELSE IF available = "False" THEN "SlotUnavailable"
        ELSE "add"

----------------------------------------------------------------------------
(* AppointmentService *)

\* a variant of the lead-time test that also refuses a start exactly 2 hours ahead
TooSoon_inclusive(date, time_slot, current_datetime) ==
    DateUtil_datetime_from_date_and_slot(date, time_slot) - current_datetime <= 2 * 60

\* make_appointment: the appointment starts less than 2 hours ahead
TooSoon(date, time_slot, current_datetime) ==
    DateUtil_datetime_from_date_and_slot(date, time_slot) - current_datetime < 2 * 60

\* a variant of the double-booking test that counts appointments of any status
UserAlreadyBooked_any_status(appts, user_id, date, time_slot) ==
    \E i \in 1..Len(appts) :
        /\ appts[i].user_id = user_id
        /\ appts[i].date = date
        /\ appts[i].time_slot = time_slot

\* make_appointment: the user already holds a Scheduled appointment at
\* that date and slot
UserAlreadyBooked(appts, user_id, date, time_slot) ==
    LET user_appointments == AppointmentRepository_get_by_user(appts, user_id)
    IN  \E i \in 1..Len(user_appointments) :
            /\ user_appointments[i].date = date
            /\ user_appointments[i].time_slot = time_slot
            /\ Appointment_is_scheduled(user_appointments[i])

\* a variant of the checks without the double-booking test
precheck_lead_time_only(appts, current_datetime, user_id, date, time_slot) ==
    IF DateUtil_datetime_from_date_and_slot(date, time_slot) - current_datetime < 2 * 60
    THEN "LeadTimeViolation" ELSE "pass"

\* a variant of the checks that looks for a double booking before it looks
\* at the lead time
precheck_double_booking_first(appts, current_datetime, user_id, date, time_slot) ==
    IF UserAlreadyBooked(appts, user_id, date, time_slot) THEN "DoubleBooking"
    ELSE IF TooSoon(date, time_slot, current_datetime) THEN "LeadTimeViolation"
    ELSE "pass"

\* the checks make_appointment runs before add_appointment, in the code's
\* order: the error raised, or "pass"
make_appointment_precheck(appts, current_datetime, user_id, date, time_slot) ==
    IF TooSoon(date, time_slot, current_datetime) THEN "LeadTimeViolation"
    ELSE IF UserAlreadyBooked(appts, user_id, date, time_slot) THEN "DoubleBooking"
    ELSE "pass"

\* all checks of make_appointment: the error raised, or "add" when the
\* row is to be inserted
make_appointment_check(appts, scheds, current_datetime, user_id, doctor_id, clinic_id, date, time_slot) ==
    LET pre == make_appointment_precheck(appts, current_datetime, user_id, date, time_slot)
    IN  IF pre # "pass" THEN pre
        ELSE AppointmentRepository_add_appointment_check(
                 appts, scheds, doctor_id, clinic_id, date, time_slot)

\* add_appointment as it would be if booking took the slot out of the
\* doctor's schedule
add_appointment_clearing_slot(scheds, doctor_id, clinic_id, time_slot) ==
    [i \in 1..Len(scheds) |->
        IF scheds[i].doctor_id = doctor_id /\ scheds[i].clinic_id = clinic_id
        THEN [scheds[i] EXCEPT !.time_slots =
                 DoctorSchedule_set_unavailable(scheds[i].time_slots, time_slot - 1)]
        ELSE scheds[i]]

\* AppointmentRepository.add_appointment, the schedule file after it: the
\* update_schedule argument is "no longer used", the file is not written
AppointmentRepository_add_appointment_schedules(scheds, doctor_id, clinic_id, time_slot) ==
    scheds

\* a variant of NewNotification with the first two arguments exchanged
NewNotification_for_id(id, user_id, message, current_datetime) ==
    [id |-> user_id, user_id |-> id, message |-> message,
     date |-> current_datetime \div (24 * 60), read |-> FALSE]

NewAppointment(id, user_id, doctor_id, clinic_id, date, time_slot) ==
    [id |-> id, user_id |-> user_id, doctor_id |-> doctor_id, clinic_id |-> clinic_id,
     date |-> date, time_slot |-> time_slot, status |-> Scheduled]

NewNotification(id, user_id, message, current_datetime) ==
    [id |-> id, user_id |-> user_id, message |-> message,
     date |-> current_datetime \div (24 * 60), read |-> FALSE]

ScheduledMessage(a) == <<"scheduled", a.date, a.time_slot, a.doctor_id, a.clinic_id>>

CancelledMessage(a) == <<"cancelled", a.date, a.time_slot>>

\* a service call on appointment a (its arguments, or the object passed) and
\* what the call returned or raised
CallRecord(op, a, result) ==
    [op |-> op, id |-> a.id, user_id |-> a.user_id, doctor_id |-> a.doctor_id,
     clinic_id |-> a.clinic_id, date |-> a.date, time_slot |-> a.time_slot,
     status |-> a.status, result |-> result]

\* no call yet
NoCall ==
    [op |-> "none", id |-> 0, user_id |-> 0, doctor_id |-> 0, clinic_id |-> 0,
     date |-> 0, time_slot |-> 0, status |-> "", result |-> ""]

\* nothing allocated or deleted yet, IdGenerator not initialised
NoHistory == [allocated |-> <<>>, deleted |-> {}, seen_max |-> None]

\* AppointmentRepository.cancel_appointment on an in-memory object:
\* whether it goes on to cancel (and returns True)
cancel_proceeds(appointment) == ~Appointment_is_cancelled(appointment)

concVars == <<pc, req, buf>>

----------------------------------------------------------------------------
(* Spec: one process, every call runs to completion *)

MakeAppointment(user_id, doctor_id, clinic_id, date, time_slot) ==
    LET outcome == make_appointment_check(appointments, schedules, now,
                       user_id, doctor_id, clinic_id, date, time_slot)
        files == Files(appointments, schedules, doctors, clinics, notifications)
        alloc == IdGenerator_next_id(max_ids[1], files, "appointments")
        appointment == NewAppointment(alloc.id, user_id, doctor_id, clinic_id, date, time_slot)
        request == NewAppointment(0, user_id, doctor_id, clinic_id, date, time_slot)
        added == FileUtil_append_csv(appointments, appointment)
        doctor == BaseRepository_get_by_id(doctors, doctor_id)
        clinic == BaseRepository_get_by_id(clinics, clinic_id)
        files2 == Files(added, schedules, doctors, clinics, notifications)
        alloc2 == IdGenerator_next_id(alloc.max_ids, files2, "notifications")
        notification == NewNotification(alloc2.id, user_id, ScheduledMessage(appointment), now)
    IN  /\ outcome = "add" => Len(appointments) < MaxAppointments
        /\ IF outcome # "add"
           THEN /\ last' = CallRecord("make", request, outcome)
                /\ UNCHANGED <<appointments, schedules, notifications, max_ids>>
           ELSE /\ appointments' = added
                /\ schedules' = AppointmentRepository_add_appointment_schedules(
                                    schedules, doctor_id, clinic_id, time_slot)
                /\ IF doctor = None \/ clinic = None
                   THEN /\ last' = CallRecord("make", appointment, "AttributeError")
                        /\ max_ids' = [max_ids EXCEPT ![1] = alloc.max_ids]
                        /\ UNCHANGED notifications
                   ELSE /\ last' = CallRecord("make", appointment, "ok")
                        /\ max_ids' = [max_ids EXCEPT ![1] = alloc2.max_ids]
                        /\ notifications' = FileUtil_append_csv(notifications, notification)
        /\ UNCHANGED <<doctors, clinics, now, handles, hist, concVars>>

\* AppointmentService.cancel_appointment on the in-memory object `appointment`
cancel_appointment(appointment) ==
    LET cancelled == Appointment_cancel_by_patient(appointment)
        updated == FileUtil_update_row(appointments, appointment.id, cancelled)
        files == Files(updated, schedules, doctors, clinics, notifications)
        alloc == IdGenerator_next_id(max_ids[1], files, "notifications")
        notification == NewNotification(alloc.id, appointment.user_id,
                            CancelledMessage(appointment), now)
    IN  /\ IF cancel_proceeds(appointment)
           THEN /\ appointments' = updated
                /\ notifications' = FileUtil_append_csv(notifications, notification)
                /\ max_ids' = [max_ids EXCEPT ![1] = alloc.max_ids]
                /\ last' = CallRecord("cancel", appointment, "True")
           ELSE /\ last' = CallRecord("cancel", appointment, "False")
                /\ UNCHANGED <<appointments, notifications, max_ids>>
        /\ UNCHANGED <<schedules, doctors, clinics, now, concVars>>

\* the caller fetches the appointment by id (get_appointment_by_id) and
\* passes the object to cancel_appointment
CancelAppointment(appointment_id) ==
    LET found == BaseRepository_get_by_id(appointments, appointment_id)
    IN  /\ found # None
        /\ cancel_appointment(found[1])
        /\ UNCHANGED <<handles, hist>>

\* ClinicController.delete_doctor: the doctor's row is removed, nothing else
DeleteDoctor(doctor_id) ==
    /\ BaseRepository_get_by_id(doctors, doctor_id) # None
    /\ doctors' = FileUtil_delete_row(doctors, doctor_id)
    /\ last' = [NoCall EXCEPT !.op = "delete_doctor", !.doctor_id = doctor_id,
                              !.result = "True"]
    /\ UNCHANGED <<appointments, schedules, clinics, notifications,
                   max_ids, now, handles, hist, concVars>>

\* time passes between two calls
Tick ==
    /\ \E i \in 1..(Len(ClockTicks) - 1) : now = ClockTicks[i] /\ now' = ClockTicks[i + 1]
    /\ UNCHANGED <<stores, max_ids, handles, hist, last, concVars>>

----------------------------------------------------------------------------
(* The data files when the program starts *)

ScheduleRow(id, doctor_id, clinic_id, time_slots) ==
    [id |-> id, doctor_id |-> doctor_id, clinic_id |-> clinic_id, time_slots |-> time_slots]

\* doctor 1 works all day at clinic 1, doctor 2 at clinic 1 without the
\* second slot (bit 1), doctor 2 all day at clinic 2; doctor 1 has no
\* schedule row at clinic 2
InitialSchedules ==
    <<ScheduleRow(1, 1, 1, AllAvailableHex),
      ScheduleRow(2, 2, 1, <<"f", "f", "f", "d">>),
      ScheduleRow(3, 2, 2, AllAvailableHex)>>

InitialDoctors ==
    <<[id |-> 1, assigned_clinics |-> <<1>>], [id |-> 2, assigned_clinics |-> <<1, 2>>]>>

InitialClinics == <<[id |-> 1], [id |-> 2]>>

SeedRow(user_id, doctor_id, clinic_id, date, time_slot, status) ==
    [id |-> 1, user_id |-> user_id, doctor_id |-> doctor_id, clinic_id |-> clinic_id,
     date |-> date, time_slot |-> time_slot, status |-> status]

\* an empty appointments file, or one holding a row written earlier: a
\* completed one, one the clinic cancelled, one whose slot the doctor's
\* schedule no longer offers
InitialAppointments ==
    { <<>>,
      <<SeedRow(1, 1, 1, 1, 1, Completed)>>,
      <<SeedRow(2, 1, 1, 1, 2, CancelledByClinic)>>,
      <<SeedRow(1, 2, 1, 1, 2, Scheduled)>> }

InitCommon ==
    /\ schedules = InitialSchedules
    /\ doctors = InitialDoctors
    /\ clinics = InitialClinics
    /\ notifications = <<>>
    /\ max_ids = [p \in Callers |-> <<>>]
    /\ now = ClockTicks[1]
    /\ handles = [h \in HandleIds |-> None]
    /\ hist = NoHistory
    /\ last = NoCall
    /\ pc = [p \in Callers |-> "idle"]
    /\ req = [p \in Callers |-> [call |-> NoCall, seen |-> <<>>]]
    /\ buf = [p \in Callers |-> [existing_data |-> <<>>, row |-> NoCall]]

Init ==
    /\ appointments \in InitialAppointments
    /\ InitCommon

Next ==
    \/ \E u \in Users, d \in Doctors, c \in Clinics, dt \in Dates, s \in SlotInputs :
           MakeAppointment(u, d, c, dt, s)
    \/ \E id \in 1..MaxAppointments : CancelAppointment(id)
    \/ \E d \in DeletableDoctors : DeleteDoctor(d)
    \/ Tick

Spec == Init /\ [][Next]_vars

----------------------------------------------------------------------------
(* SpecConc: two processes book at the same time.  Each read of a file and  *)
(* each rewrite of a file is one step; the steps of the two make_appointment *)
(* calls interleave freely.  Each process has its own IdGenerator.           *)

ConcDone(p, result) ==
    /\ pc' = [pc EXCEPT ![p] = "done"]
    /\ req' = [req EXCEPT ![p].call.result = result]

\* lines 256-272: the clock is read, get_by_user reads the appointments file
ConcPrecheck(p, user_id, doctor_id, clinic_id, date, time_slot) ==
    LET request == NewAppointment(0, user_id, doctor_id, clinic_id, date, time_slot)
        outcome == make_appointment_precheck(appointments, now, user_id, date, time_slot)
    IN  /\ pc[p] = "idle"
        /\ pc' = [pc EXCEPT ![p] = IF outcome = "pass" THEN "prechecked" ELSE "done"]
        /\ req' = [req EXCEPT ![p].call = CallRecord("make", request,
                                              IF outcome = "pass" THEN "" ELSE outcome)]
        /\ UNCHANGED <<stores, max_ids, now, handles, hist, last, buf>>

\* add_appointment's guard: is_slot_available reads the appointments file
\* (and the schedule file)
ConcCheckSlot(p) ==
    LET r == req[p].call
        outcome == AppointmentRepository_add_appointment_check(
                       appointments, schedules, r.doctor_id, r.clinic_id, r.date, r.time_slot)
    IN  /\ pc[p] = "prechecked"
        /\ pc' = [pc EXCEPT ![p] = IF outcome = "add" THEN "checked" ELSE "done"]
        /\ req' = [req EXCEPT ![p].seen = appointments,
                              ![p].call.result = IF outcome = "add" THEN "" ELSE outcome]
        /\ UNCHANGED <<stores, max_ids, now, handles, hist, last, buf>>

\* BaseRepository.add: the id comes from the process's IdGenerator
ConcNextId(p) ==
    LET files == Files(appointments, schedules, doctors, clinics, notifications)
        alloc == IdGenerator_next_id(max_ids[p], files, "appointments")
    IN  /\ pc[p] = "checked"
        /\ pc' = [pc EXCEPT ![p] = "append"]
        /\ max_ids' = [max_ids EXCEPT ![p] = alloc.max_ids]
        /\ req' = [req EXCEPT ![p].call.id = alloc.id]
        /\ UNCHANGED <<stores, now, handles, hist, last, buf>>

\* FileUtil.append_csv: existing_data = read_csv(file_path)
ConcAppendRead(p) ==
    LET r == req[p].call
    IN  /\ pc[p] = "append"
        /\ pc' = [pc EXCEPT ![p] = "write"]
        /\ buf' = [buf EXCEPT ![p] =
                      [existing_data |-> appointments,
                       row |-> NewAppointment(r.id, r.user_id, r.doctor_id, r.clinic_id,
                                              r.date, r.time_slot)]]
        /\ UNCHANGED <<stores, max_ids, now, handles, hist, last, req>>

\* FileUtil.append_csv: write_csv(file_path, existing_data + [row])
ConcAppendWrite(p) ==
    /\ pc[p] = "write"
    /\ pc' = [pc EXCEPT ![p] = "notify"]
    /\ appointments' = FileUtil_append_csv(buf[p].existing_data, buf[p].row)
    /\ UNCHANGED <<schedules, doctors, clinics, notifications,
                   max_ids, now, handles, hist, last, req, buf>>

\* lines 289-300: doctor and clinic are looked up, the notification gets its
\* id, append_csv reads the notifications file
ConcNotifyRead(p) ==
    LET r == req[p].call
        doctor == BaseRepository_get_by_id(doctors, r.doctor_id)
        clinic == BaseRepository_get_by_id(clinics, r.clinic_id)
        files == Files(appointments, schedules, doctors, clinics, notifications)
        alloc == IdGenerator_next_id(max_ids[p], files, "notifications")
    IN  /\ pc[p] = "notify"
        /\ IF doctor = None \/ clinic = None
           THEN /\ ConcDone(p, "AttributeError")
                /\ UNCHANGED <<max_ids, buf>>
           ELSE /\ pc' = [pc EXCEPT ![p] = "notify_write"]
                /\ max_ids' = [max_ids EXCEPT ![p] = alloc.max_ids]
                /\ buf' = [buf EXCEPT ![p] =
                              [existing_data |-> notifications,
                               row |-> NewNotification(alloc.id, r.user_id,
                                                       ScheduledMessage(r), now)]]
                /\ UNCHANGED req
        /\ UNCHANGED <<stores, now, handles, hist, last>>

ConcNotifyWrite(p) ==
    /\ pc[p] = "notify_write"
    /\ notifications' = FileUtil_append_csv(buf[p].existing_data, buf[p].row)
    /\ ConcDone(p, "ok")
    /\ UNCHANGED <<appointments, schedules, doctors, clinics,
                   max_ids, now, handles, hist, last, buf>>

InitConc ==
    /\ appointments = <<>>
    /\ InitCommon

NextConc ==
    \E p \in Callers :
        \/ \E u \in Users, d \in Doctors, c \in Clinics, dt \in Dates, s \in SlotInputs :
               ConcPrecheck(p, u, d, c, dt, s)
        \/ ConcCheckSlot(p)
        \/ ConcNextId(p)
        \/ ConcAppendRead(p)
        \/ ConcAppendWrite(p)
        \/ ConcNotifyRead(p)
        \/ ConcNotifyWrite(p)

SpecConc == InitConc /\ [][NextConc]_vars

----------------------------------------------------------------------------
(* SpecStore: BaseRepository on one entity file, data/doctors.csv, in one    *)
(* process, as ClinicController uses it.  SpecIO: the same calls when a      *)
(* read or a rewrite of the file may fail.                                   *)

MaxAdds == 3

StoreIds == 1..6

\* SpecIO: fewer adds and ids, each call with every read and write outcome
MaxAddsIO == 1

StoreIdsIO == 1..3

ClinicLists == {<<1>>, <<1, 2>>}

\* "absent": the file does not exist when the call begins; "error": open()
\* or the csv reader raised
ReadOutcomes == {"ok", "error", "absent"}

\* open() raised, or the failure came after the file was opened for writing

WriteOutcomes == {"ok", "open_error", "write_error"}

DoctorRow(id, assigned_clinics) == [id |-> id, assigned_clinics |-> assigned_clinics]

\* FileUtil.ensure_file_exists: an absent file is created empty
FileUtil_ensure_file_exists(file, read) == IF read = "absent" THEN <<>> ELSE file

\* FileUtil.read_csv: the rows of the file; an exception is caught and the
\* rows read so far (none, when open() raised) are returned
FileUtil_read_csv(file, read) ==
    IF read = "error" THEN <<>> ELSE FileUtil_ensure_file_exists(file, read)

\* FileUtil.write_csv: the file afterwards and the value returned.  With
\* no rows the file is opened outside the try block and the exception
\* leaves write_csv.
FileUtil_write_csv(file, data, write) ==
    [file |-> IF write = "ok" THEN data
              ELSE IF write = "open_error" THEN file
              ELSE <<>>,
     result |-> IF write = "ok" THEN "True"
                ELSE IF data = <<>> THEN "Exception"
                ELSE "False"]

\* try/except of append_csv, update_row and delete_row
Caught(out) == [out EXCEPT !.result = IF @ = "Exception" THEN "False" ELSE @]

FileUtil_append_csv_io(file, row, read, write) ==
    Caught(FileUtil_write_csv(FileUtil_ensure_file_exists(file, read),
               FileUtil_append_csv(FileUtil_read_csv(file, read), row), write))

FileUtil_update_row_io(file, id, update_data, read, write) ==
    LET existing_data == FileUtil_read_csv(file, read)
        ensured == FileUtil_ensure_file_exists(file, read)
    IN  IF existing_data = <<>> THEN [file |-> ensured, result |-> "True"]
        ELSE Caught(FileUtil_write_csv(ensured,
                        FileUtil_update_row(existing_data, id, update_data), write))

FileUtil_delete_row_io(file, id, read, write) ==
    LET existing_data == FileUtil_read_csv(file, read)
        filtered_data == FileUtil_delete_row(existing_data, id)
        ensured == FileUtil_ensure_file_exists(file, read)
    IN  IF existing_data = <<>> THEN [file |-> ensured, result |-> "True"]
        ELSE IF Len(filtered_data) = Len(existing_data)
        THEN [file |-> ensured, result |-> "True"]
        ELSE Caught(FileUtil_write_csv(ensured, filtered_data, write))

\* a call on the doctors store: the file before it, what the file
\* operation reported and what the repository method returned
StoreCall(op, id, before, read, write, file_result, result) ==
    [op |-> op, id |-> id, before |-> before, read |-> read, write |-> write,
     file_result |-> file_result, result |-> result]

\* the maximum id of the doctors file as the IdGenerator saw it when it was
\* initialised
SeenMax(files) ==
    IF hist.seen_max = None /\ DOMAIN max_ids[1] = {}
    THEN Some(IdGenerator_initialize(files)["doctors"])
    ELSE hist.seen_max

\* BaseRepository.add of a Doctor without id (ClinicController.add_doctor)
BaseRepository_add(assigned_clinics, read, write) ==
    LET files == Files(appointments, schedules, doctors, clinics, notifications)
        alloc == IdGenerator_next_id(max_ids[1], files, "doctors")
        entity_dict == DoctorRow(alloc.id, assigned_clinics)
        out == FileUtil_append_csv_io(doctors, entity_dict, read, write)
    IN  /\ Len(hist.allocated) < MaxAdds
        /\ max_ids' = [max_ids EXCEPT ![1] = alloc.max_ids]
        /\ doctors' = out.file
        /\ last' = StoreCall("add", alloc.id, doctors, read, write, out.result, entity_dict)
        /\ hist' = [hist EXCEPT !.allocated = Append(@, alloc.id),
                                !.seen_max = SeenMax(files)]
        /\ UNCHANGED <<appointments, schedules, clinics, notifications,
                       now, handles, concVars>>

\* BaseRepository.add of a Clinic without id (ClinicController.add_clinic):
\* an allocation for another file, which initialises the IdGenerator too
AddClinic ==
    LET files == Files(appointments, schedules, doctors, clinics, notifications)
        alloc == IdGenerator_next_id(max_ids[1], files, "clinics")
    IN  /\ Len(clinics) < MaxClinicRows
        /\ max_ids' = [max_ids EXCEPT ![1] = alloc.max_ids]
        /\ clinics' = FileUtil_append_csv(clinics, [id |-> alloc.id])
        /\ last' = StoreCall("add_clinic", alloc.id, doctors, "ok", "ok", "True",
                             [id |-> alloc.id])
        /\ hist' = [hist EXCEPT !.seen_max = SeenMax(files)]
        /\ UNCHANGED <<appointments, schedules, doctors, notifications,
                       now, handles, concVars>>

\* BaseRepository.update of a Doctor object with the given id
BaseRepository_update(id, assigned_clinics, read, write) ==
    LET entity_dict == DoctorRow(id, assigned_clinics)
        out == FileUtil_update_row_io(doctors, id, entity_dict, read, write)
    IN  /\ doctors' = out.file
        /\ last' = StoreCall("update", id, doctors, read, write, out.result, entity_dict)
        /\ UNCHANGED <<appointments, schedules, clinics, notifications,
                       max_ids, now, handles, hist, concVars>>

\* BaseRepository.delete
BaseRepository_delete(id, read, write) ==
    LET out == FileUtil_delete_row_io(doctors, id, read, write)
        before_ids == {doctors[i].id : i \in 1..Len(doctors)}
        after_ids == {out.file[i].id : i \in 1..Len(out.file)}
    IN  /\ doctors' = out.file
        /\ last' = StoreCall("delete", id, doctors, read, write, out.result, out.result)
        /\ hist' = [hist EXCEPT !.deleted = @ \cup (before_ids \ after_ids)]
        /\ UNCHANGED <<appointments, schedules, clinics, notifications,
                       max_ids, now, handles, concVars>>

\* BaseRepository.get_all
BaseRepository_get_all(read) ==
    /\ last' = StoreCall("get_all", 0, doctors, read, "ok", "True",
                         FileUtil_read_csv(doctors, read))
    /\ doctors' = FileUtil_ensure_file_exists(doctors, read)
    /\ UNCHANGED <<appointments, schedules, clinics, notifications,
                   max_ids, now, handles, hist, concVars>>

\* BaseRepository.get_by_id as a call: get_all, then the first entity with
\* that id, or None
GetById(entity_id, read) ==
    /\ last' = StoreCall("get_by_id", entity_id, doctors, read, "ok", "True",
                         BaseRepository_get_by_id(FileUtil_read_csv(doctors, read),
                                                  entity_id))
    /\ doctors' = FileUtil_ensure_file_exists(doctors, read)
    /\ UNCHANGED <<appointments, schedules, clinics, notifications,
                   max_ids, now, handles, hist, concVars>>

\* doctors.csv when the process starts: empty, with gaps, without gaps
InitialDoctorFiles ==
    { <<>>,
      <<DoctorRow(1, <<1>>), DoctorRow(3, <<1>>), DoctorRow(5, <<1, 2>>)>>,
      <<DoctorRow(1, <<1>>), DoctorRow(2, <<1, 2>>)>> }

\* doctors.csv with two rows of one id, as two interleaved writers leave it
InitialDoctorFilesIO ==
    { <<DoctorRow(1, <<1>>), DoctorRow(2, <<1, 2>>)>>,
      <<DoctorRow(2, <<1>>), DoctorRow(1, <<1>>), DoctorRow(2, <<1, 2>>)>> }

InitStoreCommon ==
    /\ appointments = <<>>
    /\ schedules = InitialSchedules
    /\ clinics = InitialClinics
    /\ notifications = <<>>
    /\ max_ids = [p \in Callers |-> <<>>]
    /\ now = ClockTicks[1]
    /\ handles = [h \in HandleIds |-> None]
    /\ last = StoreCall("none", 0, <<>>, "ok", "ok", "", "")
    /\ hist = NoHistory
    /\ pc = [p \in Callers |-> "idle"]
    /\ req = [p \in Callers |-> [call |-> NoCall, seen |-> <<>>]]
    /\ buf = [p \in Callers |-> [existing_data |-> <<>>, row |-> NoCall]]

InitStore ==
    /\ doctors \in InitialDoctorFiles
    /\ InitStoreCommon

NextStore ==
    \/ \E c \in ClinicLists : BaseRepository_add(c, "ok", "ok")
    \/ AddClinic
    \/ \E id \in StoreIds, c \in ClinicLists : BaseRepository_update(id, c, "ok", "ok")
    \/ \E id \in StoreIds : BaseRepository_delete(id, "ok", "ok")
    \/ BaseRepository_get_all("ok")

SpecStore == InitStore /\ [][NextStore]_vars

InitIO ==
    /\ doctors \in InitialDoctorFilesIO
    /\ InitStoreCommon

NextIO ==
    \E read \in ReadOutcomes, write \in WriteOutcomes :
        \/ \E c \in ClinicLists :
               Len(hist.allocated) < MaxAddsIO /\ BaseRepository_add(c, read, write)
        \/ \E id \in StoreIdsIO, c \in ClinicLists :
               BaseRepository_update(id, c, read, write)
        \/ \E id \in StoreIdsIO : BaseRepository_delete(id, read, write)
        \/ BaseRepository_get_all(read) /\ write = "ok"
        \/ \E id \in StoreIdsIO : GetById(id, read) /\ write = "ok"

SpecIO == InitIO /\ [][NextIO]_vars

----------------------------------------------------------------------------
(* SpecQuery: the availability listing of AppointmentService on fixed        *)
(* appointments, doctors and clinics files; the only file it writes is the   *)
(* schedule file, when a (doctor, clinic) pair has no row.                   *)

\* days listed when no date is given (7 in get_available_slots_data)
DateRangeDays == 2

\* arguments of the listing: None, or a value; doctor 3 does not exist
QueryClinics == {None} \cup {Some(c) : c \in Clinics}

QueryDoctors == {None} \cup {Some(d) : d \in {2, 3}}

QueryDateArgs == {None} \cup {Some(dt) : dt \in Dates}

AppointmentRow(id, user_id, doctor_id, clinic_id, date, time_slot, status) ==
    [id |-> id, user_id |-> user_id, doctor_id |-> doctor_id, clinic_id |-> clinic_id,
     date |-> date, time_slot |-> time_slot, status |-> status]

\* DoctorScheduleRepository.create_default_schedule: a row with every slot
\* available, added through BaseRepository.add
DoctorScheduleRepository_create_default_schedule(scheds, id, doctor_id, clinic_id) ==
    FileUtil_append_csv(scheds, ScheduleRow(id, doctor_id, clinic_id, AllAvailableHex))

\* a variant of get_available_time_slots that creates the default schedule
\* without looking for an existing row
get_available_time_slots_always_creating(appts, scheds, m, doctor_id, clinic_id, date) ==
    LET files == Files(appts, scheds, doctors, clinics, notifications)
        alloc == IdGenerator_next_id(m, files, "doctor_schedules")
        created == DoctorScheduleRepository_create_default_schedule(
                       scheds, alloc.id, doctor_id, clinic_id)
        Free(slot) == AppointmentRepository_is_slot_available(
                          appts, created, doctor_id, clinic_id, date, slot) = "True"
    IN  [schedules |-> created, max_ids |-> alloc.max_ids,
         slots |-> SelectSeq(DateUtil_hex_to_time_slots(AllAvailableHex), Free)]

\* AppointmentService.get_available_time_slots: the schedule file and the
\* IdGenerator afterwards, and the slots returned
AppointmentService_get_available_time_slots(appts, scheds, m, doctor_id, clinic_id, date) ==
    LET found == DoctorScheduleRepository_get_by_doctor_clinic(scheds, doctor_id, clinic_id)
        files == Files(appts, scheds, doctors, clinics, notifications)
        alloc == IdGenerator_next_id(m, files, "doctor_schedules")
        scheds1 == IF found = None
                   THEN DoctorScheduleRepository_create_default_schedule(
                            scheds, alloc.id, doctor_id, clinic_id)
                   ELSE scheds
        time_slots == IF found = None THEN AllAvailableHex ELSE found[1].time_slots
        Free(slot) == AppointmentRepository_is_slot_available(
                          appts, scheds1, doctor_id, clinic_id, date, slot) = "True"
    IN  [schedules |-> scheds1,
         max_ids |-> IF found = None THEN alloc.max_ids ELSE m,
         slots |-> SelectSeq(DateUtil_hex_to_time_slots(time_slots), Free)]

\* the ids of the rows of a file, in file order
IdsInFileOrder(rows) == [i \in 1..Len(rows) |-> rows[i].id]

\* the loops of get_available_slots_data over doctors, clinics and dates,
\* in the order the code visits them: the (doctor, clinic, date) triples
\* that reach get_available_time_slots
VisitedTriples(doctor_ids, clinic_ids, future_dates) ==
    LET nc == Len(clinic_ids)
        nd == Len(future_dates)
        all == [k \in 1..(Len(doctor_ids) * nc * nd) |->
                   [doctor_id |-> doctor_ids[((k - 1) \div (nc * nd)) + 1],
                    clinic_id |-> clinic_ids[(((k - 1) \div nd) % nc) + 1],
                    date |-> future_dates[((k - 1) % nd) + 1]]]
        Visited(t) ==
            LET doctor == BaseRepository_get_by_id(doctors, t.doctor_id)
            IN  /\ doctor # None
                /\ \E i \in 1..Len(doctor[1].assigned_clinics) :
                       doctor[1].assigned_clinics[i] = t.clinic_id
                /\ BaseRepository_get_by_id(clinics, t.clinic_id) # None
    IN  SelectSeq(all, Visited)

\* slots_data.append(...) for each slot returned for one triple
AppendSlots(acc, t, r) ==
    [schedules |-> r.schedules, max_ids |-> r.max_ids,
     data |-> acc.data \o [i \in 1..Len(r.slots) |->
                              [date |-> t.date, time_slot |-> r.slots[i],
                               doctor_id |-> t.doctor_id, clinic_id |-> t.clinic_id]]]

\* the body of the loops: get_available_time_slots for each triple in turn,
\* each call reading the schedule file the calls before it left
RECURSIVE ListSlots(_, _, _)
ListSlots(triples, appts, acc) ==
    IF triples = <<>> THEN acc
    ELSE ListSlots(Tail(triples), appts,
                   AppendSlots(acc, Head(triples),
                               AppointmentService_get_available_time_slots(
                                   appts, acc.schedules, acc.max_ids, Head(triples).doctor_id,
                                   Head(triples).clinic_id, Head(triples).date)))

\* AppointmentService.get_available_slots_data; an argument is None or <<value>>
AppointmentService_get_available_slots_data(appts, scheds, m, current_datetime, clinic_id, doctor_id, date) ==
    LET future_dates == IF date = None
                        THEN DateUtil_get_date_range(
                                 DateUtil_get_current_date(current_datetime), DateRangeDays)
                        ELSE date
        clinic_ids == IF clinic_id = None THEN IdsInFileOrder(clinics) ELSE clinic_id
        doctor_ids == IF doctor_id = None THEN IdsInFileOrder(doctors) ELSE doctor_id
    IN  ListSlots(VisitedTriples(doctor_ids, clinic_ids, future_dates), appts,
                  [schedules |-> scheds, max_ids |-> m, data |-> <<>>])

\* a listing call: its arguments, the schedule file before it and the
\* sequence returned
QueryCall(op, clinic_id, doctor_id, date, before, result) ==
    [op |-> op, clinic_id |-> clinic_id, doctor_id |-> doctor_id, date |-> date,
     before |-> before, result |-> result]

GetAvailableTimeSlots(doctor_id, clinic_id, date) ==
    LET r == AppointmentService_get_available_time_slots(
                 appointments, schedules, max_ids[1], doctor_id, clinic_id, date)
    IN  /\ schedules' = r.schedules
        /\ max_ids' = [max_ids EXCEPT ![1] = r.max_ids]
        /\ last' = QueryCall("get_available_time_slots", Some(clinic_id), Some(doctor_id),
                             Some(date), schedules, r.slots)
        /\ UNCHANGED <<appointments, doctors, clinics, notifications,
                       now, handles, hist, concVars>>

GetAvailableSlotsData(clinic_id, doctor_id, date) ==
    LET r == AppointmentService_get_available_slots_data(
                 appointments, schedules, max_ids[1], now, clinic_id, doctor_id, date)
    IN  /\ schedules' = r.schedules
        /\ max_ids' = [max_ids EXCEPT ![1] = r.max_ids]
        /\ last' = QueryCall("get_available_slots_data", clinic_id, doctor_id, date,
                             schedules, r.data)
        /\ UNCHANGED <<appointments, doctors, clinics, notifications,
                       now, handles, hist, concVars>>

\* schedule files: the one of Spec; one without a row for doctor 1; one
\* with an empty mask, a mask of isolated bits and no mask
QuerySchedules ==
    { InitialSchedules,
      <<ScheduleRow(1, 2, 1, <<"f", "f", "f", "d">>),
        ScheduleRow(2, 2, 2, <<"f", "f", "f", "f">>)>>,
      <<ScheduleRow(1, 1, 1, <<"0">>),
        ScheduleRow(2, 2, 1, <<"8", "0", "0", "1">>),
        ScheduleRow(3, 2, 2, <<>>)>> }

\* appointments files: rows of every status, for both doctors
QueryAppointments ==
    { <<>>,
      <<AppointmentRow(1, 1, 1, 1, 1, 1, Scheduled)>>,
      <<AppointmentRow(1, 2, 2, 2, 1, 16, Scheduled),
        AppointmentRow(2, 1, 2, 1, 2, 2, CancelledByPatient)>>,
      <<AppointmentRow(1, 1, 1, 1, 1, 3, Completed),
        AppointmentRow(2, 2, 1, 1, 2, 3, CancelledByClinic),
        AppointmentRow(3, 2, 1, 1, 2, 4, Scheduled)>> }

InitQuery ==
    /\ appointments \in QueryAppointments
    /\ schedules \in QuerySchedules
    /\ doctors = InitialDoctors
    /\ clinics = InitialClinics
    /\ notifications = <<>>
    /\ max_ids = [p \in Callers |-> <<>>]
    /\ now = ClockTicks[1]
    /\ handles = [h \in HandleIds |-> None]
    /\ last = QueryCall("none", None, None, None, <<>>, <<>>)
    /\ hist = NoHistory
    /\ pc = [p \in Callers |-> "idle"]
    /\ req = [p \in Callers |-> [call |-> NoCall, seen |-> <<>>]]
    /\ buf = [p \in Callers |-> [existing_data |-> <<>>, row |-> NoCall]]

NextQuery ==
    \/ \E d \in Doctors, c \in Clinics, dt \in Dates : GetAvailableTimeSlots(d, c, dt)
    \/ \E c \in QueryClinics, d \in QueryDoctors, dt \in QueryDateArgs :
           GetAvailableSlotsData(c, d, dt)

SpecQuery == InitQuery /\ [][NextQuery]_vars

----------------------------------------------------------------------------
(* SpecCodec: the conversions between slot lists and hexadecimal masks, and  *)
(* the bit test of DoctorSchedule, applied to inputs inside and outside the  *)
(* range of valid slots.                                                     *)

\* longest slot list drawn as an input, besides the two fixed lists
MaxSlotListLen == 2

\* slot numbers offered to time_slots_to_hex: 1..16 are valid
SlotValues == 0..17

\* bit indices offered to is_available: 0..15 are valid
SlotIndices == (0 - 1)..16

SlotLists ==
    UNION {[1..n -> SlotValues] : n \in 0..MaxSlotListLen}
        \cup {<<16, 1, 8>>, [i \in 1..16 |-> i]}

\* masks as the time_slots column holds them; <<>> is the empty column
CodecMasks ==
    { <<>>, <<"0">>, <<"0", "0", "0", "0">>, <<"f", "f", "f", "f">>,
      <<"f", "f", "f", "d">>, <<"8", "0", "0", "1">>, <<"1">>, <<"8", "0", "0", "0">> }

\* a call of a conversion: the slot list or the mask and index given, the
\* value returned and the exception raised
CodecCall(op, time_slots, mask, index, result, raised) ==
    [op |-> op, time_slots |-> time_slots, mask |-> mask, index |-> index,
     result |-> result, raised |-> raised]

\* the calls to make: a slot list to encode and decode, a mask to decode, a
\* mask and an index to test
GivenInputs ==
    {CodecCall("slots_given", time_slots, <<>>, 0, <<>>, "none") : time_slots \in SlotLists}
        \cup {CodecCall("mask_given", <<>>, mask, 0, <<>>, "none") : mask \in CodecMasks}
        \cup {CodecCall("index_given", <<>>, mask, index, <<>>, "none") :
                  mask \in CodecMasks, index \in SlotIndices}
        \cup {CodecCall("slot_given", <<>>, <<>>, time_slot, <<>>, "none") :
                  time_slot \in SlotValues}

\* hex_to_time_slots(time_slots_to_hex(time_slots)); neither raises
RoundTrip ==
    /\ last.op = "slots_given"
    /\ last' = CodecCall("round_trip", last.time_slots,
                         DateUtil_time_slots_to_hex(last.time_slots), 0,
                         DateUtil_hex_to_time_slots(DateUtil_time_slots_to_hex(last.time_slots)),
                         "none")
    /\ UNCHANGED <<appointments, schedules, doctors, clinics, notifications, max_ids,
                   now, handles, hist, concVars>>

HexToTimeSlots ==
    /\ last.op = "mask_given"
    /\ last' = CodecCall("hex_to_time_slots", <<>>, last.mask, 0,
                         DateUtil_hex_to_time_slots(last.mask), "none")
    /\ UNCHANGED <<appointments, schedules, doctors, clinics, notifications, max_ids,
                   now, handles, hist, concVars>>

\* DoctorSchedule(time_slots = mask).is_available(index)
IsAvailable ==
    LET answer == DoctorSchedule_is_available(last.mask, last.index)
    IN  /\ last.op = "index_given"
        /\ last' = CodecCall("is_available", <<>>, last.mask, last.index,
                             IF answer = "ValueError" THEN "none" ELSE answer,
                             IF answer = "ValueError" THEN answer ELSE "none")
        /\ UNCHANGED <<appointments, schedules, doctors, clinics, notifications, max_ids,
                       now, handles, hist, concVars>>

\* DateUtil.get_time_from_slot(time_slot): <<hour, minute>>
GetTimeFromSlot ==
    /\ last.op = "slot_given"
    /\ last' = CodecCall("get_time_from_slot", <<>>, <<>>, last.index,
                         DateUtil_get_time_from_slot(last.index), "none")
    /\ UNCHANGED <<appointments, schedules, doctors, clinics, notifications, max_ids,
                   now, handles, hist, concVars>>

InitCodec ==
    /\ appointments = <<>>
    /\ schedules = <<>>
    /\ doctors = <<>>
    /\ clinics = <<>>
    /\ notifications = <<>>
    /\ max_ids = [p \in Callers |-> <<>>]
    /\ now = ClockTicks[1]
    /\ handles = [h \in HandleIds |-> None]
    /\ last \in GivenInputs
    /\ hist = NoHistory
    /\ pc = [p \in Callers |-> "idle"]
    /\ req = [p \in Callers |-> [call |-> NoCall, seen |-> <<>>]]
    /\ buf = [p \in Callers |-> [existing_data |-> <<>>, row |-> NoCall]]

NextCodec ==
    \/ RoundTrip
    \/ HexToTimeSlots
    \/ IsAvailable
    \/ GetTimeFromSlot

SpecCodec == InitCodec /\ [][NextCodec]_vars

----------------------------------------------------------------------------
(* SpecBook: bookings with slot numbers inside and outside 1..16, and        *)
(* cancellations through an Appointment object the caller fetched earlier.   *)

\* slot numbers asked of make_appointment: the first and the last slot of
\* the day, and the numbers next to them outside the range
WideSlots == {0, 1, 16, 17}

\* the user and the doctor of the bookings of SpecBook; the doctor has a
\* schedule row at clinic 1 and none at clinic 2
BookUsers == {1}

BookDoctors == {1}

\* AppointmentService.get_appointment_by_id: the caller keeps the object
GetAppointmentById(h, appointment_id) ==
    /\ handles' = [handles EXCEPT ![h] =
                      BaseRepository_get_by_id(appointments, appointment_id)]
    /\ last' = [NoCall EXCEPT !.op = "get_appointment_by_id", !.id = appointment_id]
    /\ UNCHANGED <<stores, max_ids, now, hist, concVars>>

\* cancel_appointment on the object the caller holds; cancel_by_patient()
\* changes the status of that object
CancelHeld(h) ==
    /\ handles[h] # None
    /\ cancel_appointment(handles[h][1])
    /\ handles' = [handles EXCEPT ![h] =
                      IF cancel_proceeds(handles[h][1])
                      THEN Some(Appointment_cancel_by_patient(handles[h][1]))
                      ELSE handles[h]]
    /\ UNCHANGED hist

InitBook ==
    /\ appointments = <<>>
    /\ InitCommon

NextBook ==
    \/ \E u \in BookUsers, d \in BookDoctors, c \in Clinics, dt \in QueryDates, s \in WideSlots :
           MakeAppointment(u, d, c, dt, s)
    \/ \E h \in HandleIds, id \in 1..MaxAppointments : GetAppointmentById(h, id)
    \/ \E h \in HandleIds : CancelHeld(h)
    \/ \E id \in 1..MaxAppointments : CancelAppointment(id)

SpecBook == InitBook /\ [][NextBook]_vars

----------------------------------------------------------------------------
(* SpecLists: the list-valued fields of a doctor on their way to            *)
(* data/doctors.csv and back.  A string is a sequence of characters; a       *)
(* cell of the file is the string the csv writer was given.                  *)

MaxSpecInputLen == 3

\* the characters typed at the "Specialisation" prompt
SpecInputChars == {"a", "b", ";", " "}

SpecInputs == UNION {[1..n -> SpecInputChars] : n \in 0..MaxSpecInputLen}

\* the assigned_clinics lists a doctor is saved with
AssignedClinicLists == {<<>>, <<1>>, <<2, 1>>, <<12, 2>>}

DecDigits == <<"0", "1", "2", "3", "4", "5", "6", "7", "8", "9">>

DecDigitValue(ch) == (CHOOSE i \in 1..10 : DecDigits[i] = ch) - 1

\* str(item) of a non-negative int
RECURSIVE str_of_int(_)
str_of_int(n) ==
    IF n < 10 THEN <<DecDigits[n + 1]>>
    ELSE str_of_int(n \div 10) \o <<DecDigits[(n % 10) + 1]>>

\* int(s) of a string of decimal digits
RECURSIVE int_of_str(_)
int_of_str(s) ==
    IF s = <<>> THEN 0
    ELSE 10 * int_of_str(SubSeq(s, 1, Len(s) - 1)) + DecDigitValue(s[Len(s)])

\* sep.join(items)
RECURSIVE str_join(_, _)
str_join(sep, items) ==
    IF items = <<>> THEN <<>>
    ELSE IF Len(items) = 1 THEN items[1]
    ELSE items[1] \o <<sep>> \o str_join(sep, Tail(items))

\* s.split(sep): the pieces between the separators, empty pieces included
RECURSIVE str_split(_, _)
str_split(s, sep) ==
    LET at == {i \in 1..Len(s) : s[i] = sep}
    IN  IF at = {} THEN <<s>>
        ELSE <<SubSeq(s, 1, SetMin(at) - 1)>>
                 \o str_split(SubSeq(s, SetMin(at) + 1, Len(s)), sep)

\* s.strip()
RECURSIVE str_strip(_)
str_strip(s) ==
    IF s # <<>> /\ Head(s) = " " THEN str_strip(Tail(s))
    ELSE IF s # <<>> /\ s[Len(s)] = " " THEN str_strip(SubSeq(s, 1, Len(s) - 1))
    ELSE s

\* ClinicController.add_doctor: the specialisations read from the prompt
ClinicController_specialisations(typed) ==
    LET spec_input == str_strip(typed)
        pieces == str_split(spec_input, ";")
        Kept(spec) == str_strip(spec) # <<>>
        kept == SelectSeq(pieces, Kept)
    IN  [i \in 1..Len(kept) |-> str_strip(kept[i])]

DoctorEntity(id, assigned_clinics, specialisation) ==
    [id |-> id, assigned_clinics |-> assigned_clinics, specialisation |-> specialisation]

\* a variant of the list conversion that separates the items with ","
entity_dict_comma_separated(doctor) ==
    [id |-> doctor.id,
     assigned_clinics |->
         str_join(",", [i \in 1..Len(doctor.assigned_clinics) |->
                          str_of_int(doctor.assigned_clinics[i])]),
     specialisation |-> str_join(",", doctor.specialisation)]

\* BaseRepository.add and update: entity.to_dict() with every list turned
\* into ";".join([str(item) for item in value])
BaseRepository_entity_dict(doctor) ==
    [id |-> doctor.id,
     assigned_clinics |->
         str_join(";", [i \in 1..Len(doctor.assigned_clinics) |->
                           str_of_int(doctor.assigned_clinics[i])]),
     specialisation |-> str_join(";", doctor.specialisation)]

\* FileUtil.read_csv on one row: an empty cell is read as None
FileUtil_read_row(row) ==
    [id |-> row.id,
     assigned_clinics |-> IF row.assigned_clinics = <<>> THEN None
                          ELSE Some(row.assigned_clinics),
     specialisation |-> IF row.specialisation = <<>> THEN None
                        ELSE Some(row.specialisation)]

\* Doctor.from_dict and the constructor: a string is split at ";", empty
\* pieces are dropped; None and the empty list become []
Doctor_from_dict(data) ==
    LET NotEmpty(piece) == piece # <<>>
        clinic_pieces ==
            IF data.assigned_clinics = None THEN <<>>
            ELSE SelectSeq(str_split(data.assigned_clinics[1], ";"), NotEmpty)
        spec_pieces ==
            IF data.specialisation = None THEN <<>>
            ELSE SelectSeq(str_split(data.specialisation[1], ";"), NotEmpty)
    IN  DoctorEntity(data.id,
            [i \in 1..Len(clinic_pieces) |-> int_of_str(clinic_pieces[i])],
            [i \in 1..Len(spec_pieces) |-> str_strip(spec_pieces[i])])

\* DoctorRepository.get_by_id: the first row with the id, as a Doctor
DoctorRepository_get_by_id(rows, doctor_id) ==
    LET row == BaseRepository_get_by_id(rows, doctor_id)
    IN  IF row = None THEN None
        ELSE Some(Doctor_from_dict(FileUtil_read_row(row[1])))

\* a call on the doctor repository with the Doctor object it was given
DoctorCall(op, doctor) == [op |-> op, doctor |-> doctor]

\* the doctors a caller may hold: any assigned_clinics list with the
\* specialisations as the controller reads them from the prompt
GivenDoctors ==
    {DoctorCall("doctor_given", DoctorEntity(0, c, ClinicController_specialisations(s))) :
        c \in AssignedClinicLists, s \in SpecInputs}

\* doctor_repo.add(new_doctor)
AddGivenDoctor ==
    /\ last.op = "doctor_given"
    /\ LET files == Files(appointments, schedules, doctors, clinics, notifications)
           next == IdGenerator_next_id(max_ids[1], files, "doctors")
           doctor == [last.doctor EXCEPT !.id = next.id]
       IN  /\ doctors' = FileUtil_append_csv(doctors, BaseRepository_entity_dict(doctor))
           /\ max_ids' = [max_ids EXCEPT ![1] = next.max_ids]
           /\ last' = DoctorCall("add_doctor", doctor)
    /\ UNCHANGED <<appointments, schedules, clinics, notifications, now, handles, hist, concVars>>

\* doctor_repo.update(doctor) on a doctor of the file whose lists were replaced
UpdateGivenDoctor(doctor_id) ==
    /\ last.op = "doctor_given"
    /\ BaseRepository_get_by_id(doctors, doctor_id) # None
    /\ LET doctor == [last.doctor EXCEPT !.id = doctor_id]
       IN  /\ doctors' = FileUtil_update_row(doctors, doctor_id, BaseRepository_entity_dict(doctor))
           /\ last' = DoctorCall("update_doctor", doctor)
    /\ UNCHANGED <<appointments, schedules, clinics, notifications, max_ids, now, handles, hist, concVars>>

\* data/doctors.csv with one doctor saved earlier
InitialDoctorListFile ==
    <<BaseRepository_entity_dict(DoctorEntity(1, <<1, 2>>, <<<<"a">>, <<"b">>>>))>>

InitLists ==
    /\ doctors = InitialDoctorListFile
    /\ appointments = <<>>
    /\ schedules = InitialSchedules
    /\ clinics = InitialClinics
    /\ notifications = <<>>
    /\ max_ids = [p \in Callers |-> <<>>]
    /\ now = ClockTicks[1]
    /\ handles = [h \in HandleIds |-> None]
    /\ last \in GivenDoctors
    /\ hist = NoHistory
    /\ pc = [p \in Callers |-> "idle"]
    /\ req = [p \in Callers |-> [call |-> NoCall, seen |-> <<>>]]
    /\ buf = [p \in Callers |-> [existing_data |-> <<>>, row |-> NoCall]]

NextLists ==
    \/ AddGivenDoctor
    \/ \E doctor_id \in {doctors[i].id : i \in 1..Len(doctors)} : UpdateGivenDoctor(doctor_id)

SpecLists == InitLists /\ [][NextLists]_vars

----------------------------------------------------------------------------
(* SpecManage: the clinic and doctor management menus of ClinicController    *)
(* in one process.  manage_doctor_clinics fetches the doctor once and keeps  *)
(* the object while clinics are added to it and removed from it; the other   *)
(* menu entries are reachable only after that loop was left.                 *)

MaxClinicId == 3

ManagedDoctors == {1, 2}

\* a menu action with the id typed and what the controller did
ManageCall(op, id, result) == [op |-> op, id |-> id, result |-> result]

\* a variant of get_by_clinic that looks at the first assigned clinic only
get_by_clinic_first_assigned(rows, clinic_id) ==
    LET Works(row) ==
            LET assigned == Doctor_from_dict(FileUtil_read_row(row)).assigned_clinics
            IN  assigned # <<>> /\ assigned[1] = clinic_id
    IN  SelectSeq(rows, Works)

\* DoctorRepository.get_by_clinic: the doctors with is_working_in_clinic
DoctorRepository_get_by_clinic(rows, clinic_id) ==
    LET Works(row) ==
            LET assigned == Doctor_from_dict(FileUtil_read_row(row)).assigned_clinics
            IN  \E i \in 1..Len(assigned) : assigned[i] = clinic_id
    IN  SelectSeq(rows, Works)

\* Doctor.add_clinic
Doctor_add_clinic(doctor, clinic_id) ==
    IF \E i \in 1..Len(doctor.assigned_clinics) : doctor.assigned_clinics[i] = clinic_id
    THEN doctor
    ELSE [doctor EXCEPT !.assigned_clinics = Append(@, clinic_id)]

\* Doctor.remove_clinic: list.remove takes out the first occurrence
Doctor_remove_clinic(doctor, clinic_id) ==
    LET at == {i \in 1..Len(doctor.assigned_clinics) : doctor.assigned_clinics[i] = clinic_id}
    IN  IF at = {} THEN doctor
        ELSE [doctor EXCEPT !.assigned_clinics =
                 SubSeq(@, 1, SetMin(at) - 1) \o SubSeq(@, SetMin(at) + 1, Len(@))]

\* the manage_doctor_clinics loop is not running
AtMainMenu == \A h \in HandleIds : handles[h] = None

\* ClinicController.add_clinic with a name no clinic has yet
ClinicController_add_clinic ==
    LET files == Files(appointments, schedules, doctors, clinics, notifications)
        next == IdGenerator_next_id(max_ids[1], files, "clinics")
    IN  /\ AtMainMenu
        /\ next.id <= MaxClinicId
        /\ max_ids' = [max_ids EXCEPT ![1] = next.max_ids]
        /\ clinics' = FileUtil_append_csv(clinics, [id |-> next.id])
        /\ last' = ManageCall("add_clinic", next.id, "added")
        /\ UNCHANGED <<appointments, schedules, doctors, notifications, now, handles, hist, concVars>>

\* ClinicController.delete_clinic; confirm is the answer to "Confirm deletion?"
ClinicController_delete_clinic(clinic_id, confirm) ==
    LET clinic == BaseRepository_get_by_id(clinics, clinic_id)
        assigned_doctors == DoctorRepository_get_by_clinic(doctors, clinic_id)
        result == IF clinic = None THEN "not_found"
                  ELSE IF assigned_doctors # <<>> THEN "refused"
                  ELSE IF confirm = "Y" THEN "deleted"
                  ELSE "declined"
    IN  /\ AtMainMenu
        /\ clinics' = IF result = "deleted" THEN FileUtil_delete_row(clinics, clinic_id)
                      ELSE clinics
        /\ last' = ManageCall("delete_clinic", clinic_id, result)
        /\ UNCHANGED <<appointments, schedules, doctors, notifications, max_ids, now, handles, hist, concVars>>

\* ClinicController.manage_doctor_clinics: the doctor is fetched and the
\* loop begins
ManageDoctorClinics(h, doctor_id) ==
    /\ AtMainMenu
    /\ handles' = [handles EXCEPT ![h] = DoctorRepository_get_by_id(doctors, doctor_id)]
    /\ last' = ManageCall("manage_doctor_clinics", doctor_id,
                          IF DoctorRepository_get_by_id(doctors, doctor_id) = None
                          THEN "not_found" ELSE "found")
    /\ UNCHANGED <<stores, max_ids, now, hist, concVars>>

\* choice "0" of the loop
LeaveManageDoctorClinics(h) ==
    /\ handles[h] # None
    /\ handles' = [handles EXCEPT ![h] = None]
    /\ last' = ManageCall("leave", handles[h][1].id, "left")
    /\ UNCHANGED <<stores, max_ids, now, hist, concVars>>

\* ClinicController.add_clinic_to_doctor on the doctor of the loop
ClinicController_add_clinic_to_doctor(h, clinic_id) ==
    /\ handles[h] # None
    /\ LET doctor == handles[h][1]
           Assigned(id) == \E i \in 1..Len(doctor.assigned_clinics) : doctor.assigned_clinics[i] = id
           available_clinics == {i \in 1..Len(clinics) : ~Assigned(clinics[i].id)}
           clinic == BaseRepository_get_by_id(clinics, clinic_id)
           result == IF clinics = <<>> THEN "no_clinics"
                     ELSE IF available_clinics = {} THEN "none_available"
                     ELSE IF clinic = None THEN "not_found"
                     ELSE IF Assigned(clinic[1].id) THEN "already_assigned"
                     ELSE "added"
           updated == Doctor_add_clinic(doctor, clinic_id)
       IN  /\ doctors' = IF result = "added"
                         THEN FileUtil_update_row(doctors, doctor.id, BaseRepository_entity_dict(updated))
                         ELSE doctors
           /\ handles' = [handles EXCEPT ![h] = IF result = "added" THEN Some(updated) ELSE @]
           /\ last' = ManageCall("add_clinic_to_doctor", clinic_id, result)
    /\ UNCHANGED <<appointments, schedules, clinics, notifications, max_ids, now, hist, concVars>>

\* ClinicController.remove_clinic_from_doctor on the doctor of the loop
ClinicController_remove_clinic_from_doctor(h, clinic_id) ==
    /\ handles[h] # None
    /\ LET doctor == handles[h][1]
           Assigned(id) == \E i \in 1..Len(doctor.assigned_clinics) : doctor.assigned_clinics[i] = id
           result == IF doctor.assigned_clinics = <<>> THEN "none_assigned"
                     ELSE IF ~Assigned(clinic_id) THEN "not_assigned"
                     ELSE "removed"
           updated == Doctor_remove_clinic(doctor, clinic_id)
       IN  /\ doctors' = IF result = "removed"
                         THEN FileUtil_update_row(doctors, doctor.id, BaseRepository_entity_dict(updated))
                         ELSE doctors
           /\ handles' = [handles EXCEPT ![h] = IF result = "removed" THEN Some(updated) ELSE @]
           /\ last' = ManageCall("remove_clinic_from_doctor", clinic_id, result)
    /\ UNCHANGED <<appointments, schedules, clinics, notifications, max_ids, now, hist, concVars>>

\* data/doctors.csv with two doctors, one assigned to clinic 1
InitialManagedDoctors ==
    <<BaseRepository_entity_dict(DoctorEntity(1, <<1>>, <<<<"a">>>>)),
      BaseRepository_entity_dict(DoctorEntity(2, <<>>, <<>>))>>

InitManage ==
    /\ doctors = InitialManagedDoctors
    /\ clinics = InitialClinics
    /\ appointments = <<>>
    /\ schedules = InitialSchedules
    /\ notifications = <<>>
    /\ max_ids = [p \in Callers |-> <<>>]
    /\ now = ClockTicks[1]
    /\ handles = [h \in HandleIds |-> None]
    /\ last = ManageCall("none", 0, "")
    /\ hist = NoHistory
    /\ pc = [p \in Callers |-> "idle"]
    /\ req = [p \in Callers |-> [call |-> NoCall, seen |-> <<>>]]
    /\ buf = [p \in Callers |-> [existing_data |-> <<>>, row |-> NoCall]]

NextManage ==
    \/ ClinicController_add_clinic
    \/ \E clinic_id \in 1..MaxClinicId, confirm \in {"Y", "N"} : ClinicController_delete_clinic(clinic_id, confirm)
    \/ \E h \in HandleIds, doctor_id \in ManagedDoctors : ManageDoctorClinics(h, doctor_id)
    \/ \E h \in HandleIds : LeaveManageDoctorClinics(h)
    \/ \E h \in HandleIds, clinic_id \in 1..MaxClinicId : ClinicController_add_clinic_to_doctor(h, clinic_id)
    \/ \E h \in HandleIds, clinic_id \in 1..MaxClinicId : ClinicController_remove_clinic_from_doctor(h, clinic_id)

SpecManage == InitManage /\ [][NextManage]_vars

----------------------------------------------------------------------------
(* SpecMask: set_available and set_unavailable called one after another on   *)
(* one DoctorSchedule object, with one bit index.                            *)

MaxSetterCalls == 3

\* a variant of set_available that leaves the chosen bit as the only one set
set_available_replacing(time_slots, time_slot_index) ==
    IntToHex(Pow2(time_slot_index))

\* DoctorSchedule.set_available: an empty mask is taken as "0"; the mask
\* with the bit of the index set
DoctorSchedule_set_available(time_slots, time_slot_index) ==
    LET time_slots_int == HexToInt(IF time_slots = <<>> THEN <<"0">> ELSE time_slots)
    IN  IntToHex(IF BitAnd1(time_slots_int, time_slot_index) = 1
                 THEN time_slots_int
                 ELSE time_slots_int + Pow2(time_slot_index))

\* the DoctorSchedule object after a call: its time_slots, the time_slots
\* before the call, the call before that and the time_slots before it,
\* the exception the call raised and the number of calls so far
ScheduleCall(op, index, time_slots, before, prev_op, before_prev, raised, calls) ==
    [op |-> op, index |-> index, time_slots |-> time_slots, before |-> before,
     prev_op |-> prev_op, before_prev |-> before_prev, raised |-> raised,
     calls |-> calls]

GivenSchedules ==
    {ScheduleCall("schedule_given", index, mask, mask, "none", mask, "none", 0) :
        mask \in CodecMasks, index \in SlotIndices}

\* schedule.set_available(index); 1 << index raises ValueError for a
\* negative index, the object is left as it was
SetAvailable ==
    /\ last.op \in {"schedule_given", "set_available", "set_unavailable"}
    /\ last.calls < MaxSetterCalls
    /\ last' = ScheduleCall("set_available", last.index,
                   IF last.index < 0 THEN last.time_slots
                   ELSE DoctorSchedule_set_available(last.time_slots, last.index),
                   last.time_slots, last.op, last.before,
                   IF last.index < 0 THEN "ValueError" ELSE "none",
                   last.calls + 1)
    /\ UNCHANGED <<appointments, schedules, doctors, clinics, notifications, max_ids, now, handles, hist, concVars>>

\* schedule.set_unavailable(index); an empty mask returns before the shift
SetUnavailable ==
    /\ last.op \in {"schedule_given", "set_available", "set_unavailable"}
    /\ last.calls < MaxSetterCalls
    /\ last' = ScheduleCall("set_unavailable", last.index,
                   IF last.index < 0 THEN last.time_slots
                   ELSE DoctorSchedule_set_unavailable(last.time_slots, last.index),
                   last.time_slots, last.op, last.before,
                   IF last.index < 0 /\ last.time_slots # <<>> THEN "ValueError" ELSE "none",
                   last.calls + 1)
    /\ UNCHANGED <<appointments, schedules, doctors, clinics, notifications, max_ids, now, handles, hist, concVars>>

InitMask ==
    /\ appointments = <<>>
    /\ schedules = <<>>
    /\ doctors = <<>>
    /\ clinics = <<>>
    /\ notifications = <<>>
    /\ max_ids = [p \in Callers |-> <<>>]
    /\ now = ClockTicks[1]
    /\ handles = [h \in HandleIds |-> None]
    /\ last \in GivenSchedules
    /\ hist = NoHistory
    /\ pc = [p \in Callers |-> "idle"]
    /\ req = [p \in Callers |-> [call |-> NoCall, seen |-> <<>>]]
    /\ buf = [p \in Callers |-> [existing_data |-> <<>>, row |-> NoCall]]

NextMask ==
    \/ SetAvailable
    \/ SetUnavailable

SpecMask == InitMask /\ [][NextMask]_vars

----------------------------------------------------------------------------
(* Properties of the booking engine under Spec (one caller) *)

\* the rows of appts that are Scheduled for (doctor, date, slot)
ScheduledFor(appts, doctor_id, date, time_slot) ==
    {i \in 1..Len(appts) : /\ appts[i].doctor_id = doctor_id
                           /\ appts[i].date = date
                           /\ appts[i].time_slot = time_slot
                           /\ appts[i].status = Scheduled}

\* the rows of appts that are Scheduled for the user at (date, slot)
HeldBy(appts, user_id, date, time_slot) ==
    {i \in 1..Len(appts) : /\ appts[i].user_id = user_id
                           /\ appts[i].date = date
                           /\ appts[i].time_slot = time_slot
                           /\ appts[i].status = Scheduled}

\* the schedule row of (doctor, clinic) has the bit of the slot set
MaskIncludes(scheds, doctor_id, clinic_id, time_slot) ==
    \E i \in 1..Len(scheds) :
        /\ scheds[i].doctor_id = doctor_id
        /\ scheds[i].clinic_id = clinic_id
        /\ (HexToInt(scheds[i].time_slots) \div (2 ^ (time_slot - 1))) % 2 = 1

\* minutes from the current time to the start of the slot
MinutesAhead(date, time_slot) ==
    DateUtil_datetime_from_date_and_slot(date, time_slot) - now

TerminalStatuses == {Completed, CancelledByPatient, CancelledByClinic}

\* C1: with one caller, for every (doctor_id, date, time_slot) at most one
\* appointment row has status Scheduled.
C1_OneScheduledPerDoctorSlot ==
    \A i, j \in 1..Len(appointments) :
        ( /\ appointments[i].status = Scheduled
          /\ appointments[j].status = Scheduled
          /\ appointments[i].doctor_id = appointments[j].doctor_id
          /\ appointments[i].date = appointments[j].date
          /\ appointments[i].time_slot = appointments[j].time_slot ) => i = j

\* a slot that was booked, cancelled and booked again: two rows for the
\* same (doctor, date, slot), one of them Scheduled
C1_Rebooked ==
    /\ last.op = "make" /\ last.result = "ok"
    /\ \E i, j \in 1..Len(appointments) :
          /\ i # j
          /\ appointments[j].id = last.id
          /\ appointments[j].status = Scheduled
          /\ appointments[i].status = CancelledByPatient
          /\ appointments[i].doctor_id = appointments[j].doctor_id
          /\ appointments[i].date = appointments[j].date
          /\ appointments[i].time_slot = appointments[j].time_slot

\* a step that is a make_appointment call; last' holds its arguments
MakeCall == last'.op = "make" /\ now' = now

\* a step that is a cancel_appointment call; last' holds the object passed
CancelCall == last'.op = "cancel" /\ now' = now

C2_RowAndFrame ==
    [][LET u == last'.user_id  d == last'.doctor_id  c == last'.clinic_id
           dt == last'.date    s == last'.time_slot
       IN  ( /\ MakeCall
             /\ AppointmentRepository_is_slot_available(
                    appointments, schedules, d, c, dt, s) = "True"
             /\ MinutesAhead(dt, s) >= 2 * 60
             /\ HeldBy(appointments, u, dt, s) = {} )
           =>
           ( /\ last'.result = "ok" <=> ( /\ BaseRepository_get_by_id(doctors, d) # None
                                          /\ BaseRepository_get_by_id(clinics, c) # None )
             /\ last'.result \in {"ok", "AttributeError"}
             /\ Len(appointments') = Len(appointments) + 1
             /\ SubSeq(appointments', 1, Len(appointments)) = appointments
             /\ appointments'[Len(appointments')] =
                    NewAppointment(last'.id, u, d, c, dt, s)
             /\ \A c2 \in Clinics :
                   AppointmentRepository_is_slot_available(
                       appointments', schedules', d, c2, dt, s) = "False"
             /\ \A d2 \in Doctors, c2 \in Clinics, dt2 \in QueryDates, s2 \in ValidSlots :
                   <<d2, dt2, s2>> # <<d, dt, s>> =>
                       AppointmentRepository_is_slot_available(
                           appointments', schedules', d2, c2, dt2, s2)
                       = AppointmentRepository_is_slot_available(
                           appointments, schedules, d2, c2, dt2, s2) )
      ]_vars

C3_RefusedOutsideMask ==
    /\ last.op = "make" /\ last.result = "SlotUnavailable"
    /\ ~MaskIncludes(schedules, last.doctor_id, last.clinic_id, last.time_slot)
    /\ ScheduledFor(appointments, last.doctor_id, last.date, last.time_slot) = {}

\* the last call cancelled a Scheduled appointment of a slot that the
\* doctor's mask at the clinic includes
CancelledScheduledInMask ==
    /\ last.op = "cancel" /\ last.result = "True" /\ last.status = Scheduled
    /\ MaskIncludes(schedules, last.doctor_id, last.clinic_id, last.time_slot)

C4_FreedAndRebooked ==
    /\ [](CancelledScheduledInMask =>
            AppointmentRepository_is_slot_available(
                appointments, schedules,
                last.doctor_id, last.clinic_id, last.date, last.time_slot) = "True")
    /\ [][( /\ CancelledScheduledInMask
            /\ MakeCall
            /\ last'.doctor_id = last.doctor_id /\ last'.clinic_id = last.clinic_id
            /\ last'.date = last.date /\ last'.time_slot = last.time_slot
            /\ last'.user_id # last.user_id
            /\ HeldBy(appointments, last'.user_id, last.date, last.time_slot) = {}
            /\ MinutesAhead(last.date, last.time_slot) >= 2 * 60 )
          => /\ last'.result \in {"ok", "AttributeError"}
             /\ last'.result = "ok" <=>
                    ( /\ BaseRepository_get_by_id(doctors, last.doctor_id) # None
                      /\ BaseRepository_get_by_id(clinics, last.clinic_id) # None )
             /\ Len(appointments') = Len(appointments) + 1
             /\ appointments'[Len(appointments')].status = Scheduled
             /\ appointments'[Len(appointments')].user_id = last'.user_id
         ]_vars

\* the slot of a cancelled appointment rebooked by another user
C4_RebookedByOther ==
    /\ last.op = "make" /\ last.result = "ok"
    /\ \E i \in 1..Len(appointments) :
          /\ appointments[i].status = CancelledByPatient
          /\ appointments[i].doctor_id = last.doctor_id
          /\ appointments[i].clinic_id = last.clinic_id
          /\ appointments[i].date = last.date
          /\ appointments[i].time_slot = last.time_slot
          /\ appointments[i].user_id # last.user_id

\* C5: cancel_appointment on an appointment that is already cancelled, by
\* patient or by clinic, returns false, leaves the appointments store
\* unchanged and emits no notification.
C5_CancelOfCancelled ==
    [][( /\ CancelCall
         /\ last'.status \in {CancelledByPatient, CancelledByClinic} )
       => ( /\ last'.result = "False"
            /\ appointments' = appointments
            /\ notifications' = notifications )
      ]_vars

\* a second cancel of an appointment cancelled by its patient: refused, and
\* the only notification is the one of the first cancel
C5_CancelledTwice ==
    /\ last.op = "cancel" /\ last.result = "False"
    /\ last.status = CancelledByPatient
    /\ Len(notifications) = 1

\* C6: once an appointment's status is Completed, Cancelled by Patient or
\* Cancelled by Clinic, every later cancel_appointment on it returns false
\* and its persisted status never changes.
C6_TerminalStatesStay ==
    [][ /\ \A i \in 1..Len(appointments) :
             appointments[i].status \in TerminalStatuses =>
                 /\ i <= Len(appointments')
                 /\ appointments'[i].status = appointments[i].status
        /\ ( CancelCall /\ last'.status \in TerminalStatuses ) => last'.result = "False"
      ]_vars

\* C7: make_appointment fails with LeadTimeViolation whenever the slot
\* starts less than 2 hours after the current time, available or not, and
\* changes no store; a start 2 hours or more ahead passes this check.
C7_LeadTime ==
    [][ MakeCall =>
          /\ MinutesAhead(last'.date, last'.time_slot) < 2 * 60 =>
                 ( /\ last'.result = "LeadTimeViolation"
                   /\ UNCHANGED <<stores, max_ids>> )
          /\ MinutesAhead(last'.date, last'.time_slot) >= 2 * 60 =>
                 last'.result # "LeadTimeViolation"
      ]_vars

\* a slot booked exactly 2 hours ahead, and later a booking of an available
\* slot refused for its lead time
C7_RefusedAvailable ==
    /\ last.op = "make" /\ last.result = "LeadTimeViolation"
    /\ AppointmentRepository_is_slot_available(
           appointments, schedules,
           last.doctor_id, last.clinic_id, last.date, last.time_slot) = "True"
    /\ \E i \in 1..Len(appointments) :
          /\ appointments[i].status = Scheduled
          /\ appointments[i].id > 1
          /\ DateUtil_datetime_from_date_and_slot(
                 appointments[i].date, appointments[i].time_slot) = ClockTicks[1] + 2 * 60

\* C8: make_appointment by a user who holds a Scheduled appointment at the
\* same (date, slot) fails and inserts no row, with DoubleBooking when the
\* lead-time check passes, whatever the doctor or clinic; appointments of
\* the user that are cancelled or completed never cause DoubleBooking.
C8_DoubleBooking ==
    [][ MakeCall =>
          LET held == HeldBy(appointments, last'.user_id, last'.date, last'.time_slot)
          IN  /\ held # {} =>
                     /\ last'.result \in {"DoubleBooking", "LeadTimeViolation"}
                     /\ appointments' = appointments
                     /\ MinutesAhead(last'.date, last'.time_slot) >= 2 * 60
                            => last'.result = "DoubleBooking"
              /\ held = {} => last'.result # "DoubleBooking"
      ]_vars

\* a user with a completed appointment at a slot booked that slot again,
\* and was then refused the same slot with another doctor
C8_RefusedOtherDoctor ==
    /\ last.op = "make" /\ last.result = "DoubleBooking"
    /\ \E i \in HeldBy(appointments, last.user_id, last.date, last.time_slot) :
          /\ appointments[i].doctor_id # last.doctor_id
          /\ \E j \in 1..(i - 1) :
                /\ appointments[j].user_id = last.user_id
                /\ appointments[j].date = last.date
                /\ appointments[j].time_slot = last.time_slot
                /\ appointments[j].status = Completed

\* C9: with one caller, every user holds at most one Scheduled appointment
\* per (date, time_slot), across all doctors and clinics.
C9_OneScheduledPerUserSlot ==
    \A i, j \in 1..Len(appointments) :
        ( /\ appointments[i].status = Scheduled
          /\ appointments[j].status = Scheduled
          /\ appointments[i].user_id = appointments[j].user_id
          /\ appointments[i].date = appointments[j].date
          /\ appointments[i].time_slot = appointments[j].time_slot ) => i = j

\* a user who holds two Scheduled appointments, with different doctors at
\* different slots
C9_TwoSlotsHeld ==
    /\ last.op = "make" /\ last.result = "ok"
    /\ \E i, j \in 1..Len(appointments) :
          /\ appointments[i].status = Scheduled
          /\ appointments[j].status = Scheduled
          /\ appointments[i].user_id = appointments[j].user_id
          /\ appointments[i].doctor_id # appointments[j].doctor_id
          /\ appointments[i].time_slot # appointments[j].time_slot

\* the fields of an appointment row other than its status
SameButStatus(a, b) ==
    /\ a.id = b.id /\ a.user_id = b.user_id /\ a.doctor_id = b.doctor_id
    /\ a.clinic_id = b.clinic_id /\ a.date = b.date /\ a.time_slot = b.time_slot

\* C11: appointments are never deleted and never re-scheduled: no step
\* removes an appointment row or changes a row's id, user, doctor, clinic,
\* date or time_slot; make_appointment leaves every existing row as it was,
\* and cancel_appointment changes at most the status of the row with the
\* cancelled appointment's id and leaves every other row unchanged.
C11_NeverDeletedNeverRescheduled ==
    [][ /\ Len(appointments') >= Len(appointments)
        /\ \A i \in 1..Len(appointments) :
               /\ SameButStatus(appointments'[i], appointments[i])
               /\ MakeCall => appointments'[i] = appointments[i]
               /\ (CancelCall /\ appointments[i].id # last'.id)
                      => appointments'[i] = appointments[i]
        /\ CancelCall => Len(appointments') = Len(appointments)
      ]_vars

\* a cancel returned True on a file of two rows: the cancelled row keeps the
\* fields of the object passed, the other row is still Scheduled
C11_CancelledBesideScheduled ==
    /\ last.op = "cancel" /\ last.result = "True" /\ last.status = Scheduled
    /\ Len(appointments) = 2
    /\ \E i, j \in 1..2 :
          /\ i # j
          /\ appointments[i].id = last.id
          /\ appointments[i].status = CancelledByPatient
          /\ appointments[i].user_id = last.user_id
          /\ appointments[i].doctor_id = last.doctor_id
          /\ appointments[i].date = last.date
          /\ appointments[i].time_slot = last.time_slot
          /\ appointments[j].status = Scheduled

C13_OneNotificationPerSuccess ==
    [][ /\ (MakeCall /\ last'.result = "ok") =>
               /\ Len(notifications') = Len(notifications) + 1
               /\ SubSeq(notifications', 1, Len(notifications)) = notifications
               /\ notifications'[Len(notifications')].user_id = last'.user_id
               /\ \E i \in 1..Len(appointments') :
                      /\ appointments'[i].id = last'.id
                      /\ appointments'[i].status = Scheduled
                      /\ notifications'[Len(notifications')].message
                            = ScheduledMessage(appointments'[i])
        /\ (CancelCall /\ last'.result = "True") =>
               /\ Len(notifications') = Len(notifications) + 1
               /\ SubSeq(notifications', 1, Len(notifications)) = notifications
               /\ notifications'[Len(notifications')].user_id = last'.user_id
               /\ notifications'[Len(notifications')].message = CancelledMessage(last')
        /\ (MakeCall /\ last'.result # "ok") => notifications' = notifications
        /\ (CancelCall /\ last'.result = "False") => notifications' = notifications
      ]_vars

\* user 2 booked and then cancelled: two notifications, both for user 2,
\* one per successful call; then a refused cancel added none
C13_TwoCallsTwoNotifications ==
    /\ last.op = "cancel" /\ last.result = "False" /\ last.user_id = 2
    /\ Len(notifications) = 2
    /\ notifications[1].user_id = 2 /\ notifications[2].user_id = 2
    /\ notifications[1].message[1] = "scheduled"
    /\ notifications[2].message[1] = "cancelled"

\* C34: make_appointment evaluates its checks in a fixed order, lead time,
\* then double booking of the user, then availability of the slot when the
\* row is added: the failure reported is that of the first check that fails.
C34_FirstFailingCheckReported ==
    [][ MakeCall =>
          LET u == last'.user_id  d == last'.doctor_id  c == last'.clinic_id
              dt == last'.date    s == last'.time_slot
          IN  IF MinutesAhead(dt, s) < 2 * 60
              THEN last'.result = "LeadTimeViolation"
              ELSE IF HeldBy(appointments, u, dt, s) # {}
              THEN last'.result = "DoubleBooking"
              ELSE IF ScheduledFor(appointments, d, dt, s) # {} \/ ~MaskIncludes(schedules, d, c, s)
              THEN last'.result = "SlotUnavailable"
              ELSE last'.result \in {"ok", "AttributeError"}
      ]_vars

\* a request that was too soon, by a user who already holds that date and
\* slot with the same doctor: all three checks would fail, the lead time is
\* reported
C34_TooSoonAndDoubleBooked ==
    /\ last.op = "make" /\ last.result = "LeadTimeViolation"
    /\ \E i \in HeldBy(appointments, last.user_id, last.date, last.time_slot) :
          appointments[i].doctor_id = last.doctor_id
    /\ ScheduledFor(appointments, last.doctor_id, last.date, last.time_slot) # {}

----------------------------------------------------------------------------
(* Properties of the booking engine under SpecConc (two callers) *)

\* caller p's add_appointment has passed its guard and written its row
Inserted(p) == pc[p] \in {"notify", "notify_write", "done"} /\ req[p].call.id > 0

RowInFile(p) ==
    \E i \in 1..Len(appointments) :
        /\ appointments[i].id = req[p].call.id
        /\ appointments[i].user_id = req[p].call.user_id
        /\ appointments[i].date = req[p].call.date
        /\ appointments[i].time_slot = req[p].call.time_slot

\* C16: id allocation and append are safe only when the writers are
\* serialized: once two writers have both added a row to the appointments
\* file, two rows with one id or a missing row occur only if the calls
\* overlapped, each writer having started reading the file before the
\* other's row was written; when one writer read the file after the other's
\* write, both rows are in the file with different ids.
C16_UnsafeOnlyWhenInterleaved ==
    \A p, q \in Callers :
        (p # q /\ Inserted(p) /\ Inserted(q)) =>
            \/ /\ req[p].call.id # req[q].call.id
               /\ RowInFile(p) /\ RowInFile(q)
               /\ Len(appointments) = 2
            \/ req[p].seen = <<>> /\ req[q].seen = <<>>

\* both writers returned, both rows are in the file and carry the same id
C16_TwoRowsOneId ==
    /\ \A p \in Callers : pc[p] = "done" /\ req[p].call.result = "ok"
    /\ Len(appointments) = 2
    /\ appointments[1].id = appointments[2].id
    /\ appointments[1].user_id # appointments[2].user_id
    /\ appointments[1].time_slot # appointments[2].time_slot

----------------------------------------------------------------------------
(* Properties of the record store under SpecStore (one process) *)

RowIds(rows) == {rows[i].id : i \in 1..Len(rows)}

\* a step that is a BaseRepository.add on the doctors file
AddCall == last'.op = "add"

C15_DistinctIncreasingNeverReused ==
    /\ [](\A i, j \in 1..Len(doctors) : doctors[i].id = doctors[j].id => i = j)
    /\ [][AddCall =>
             /\ \A k \in 1..Len(hist.allocated) : last'.id > hist.allocated[k]
             /\ last'.id \notin hist.deleted
         ]_vars

\* a step that is a BaseRepository.delete on the doctors file
DeleteCall == last'.op = "delete"

\* C17: delete removes exactly the rows whose id is the given id, keeps the
\* other rows in order, returns true if a row was removed and false if no
\* row matched, and leaves the file unchanged when no row matches.
C17_DeleteReportsRemoval ==
    [][DeleteCall =>
          /\ doctors' = FileUtil_delete_row(doctors, last'.id)
          /\ (last'.id \in RowIds(doctors)) => last'.result = "True"
          /\ (last'.id \notin RowIds(doctors)) =>
                 (last'.result = "False" /\ doctors' = doctors)
      ]_vars

\* C19: after add(e) the doctors file holds exactly the rows it held
\* before the call, in the same order and with the same field values,
\* followed by one new row, the row of e with its new id.
C19_AddAppendsOneRow ==
    [][AddCall =>
          /\ Len(doctors') = Len(doctors) + 1
          /\ \A i \in 1..Len(doctors) : doctors'[i] = doctors[i]
          /\ doctors'[Len(doctors')] = last'.result
          /\ last'.result.id = last'.id
      ]_vars

\* an add on the file with ids {1,3,5}: the three rows are where they were
\* and the new row, with id 6, is the fourth
C19_FourthRowAppended ==
    /\ last.op = "add" /\ last.id = 6
    /\ Len(last.before) = 3 /\ RowIds(last.before) = {1, 3, 5}
    /\ Len(doctors) = 4
    /\ SubSeq(doctors, 1, 3) = last.before
    /\ doctors[4] = last.result /\ doctors[4].id = 6

----------------------------------------------------------------------------
(* Properties of the record store under SpecIO (reads and writes may fail) *)

\* a step that is a BaseRepository.update on the doctors file
UpdateCall == last'.op = "update"

\* the read and the rewrite of the call both succeeded
FileOperationsSucceeded(call) == call.read = "ok" /\ call.write = "ok"

\* C18: when the file operations of an update succeed, every row whose id
\* is the entity's id gets the entity's field values, every other row is
\* unchanged, no row is added or removed (also when no row matches), and
\* update_row reports True and update returns the entity, also when no
\* row matched.
C18_UpdateMatchingRowsOnly ==
    [][(UpdateCall /\ FileOperationsSucceeded(last')) =>
          /\ Len(doctors') = Len(doctors)
          /\ \A i \in 1..Len(doctors) :
                IF doctors[i].id = last'.id
                THEN /\ doctors'[i].id = doctors[i].id
                     /\ doctors'[i].assigned_clinics = last'.result.assigned_clinics
                ELSE doctors'[i] = doctors[i]
          /\ last'.file_result = "True"
          /\ last'.result.id = last'.id
      ]_vars

\* an update of id 2 on a file with two rows of id 2 changed both and left
\* the row of id 1 as it was
C18_BothRowsUpdated ==
    /\ last.op = "update" /\ last.id = 2 /\ FileOperationsSucceeded(last)
    /\ Len(last.before) = 3 /\ Len(doctors) = 3
    /\ last.before[1].id = 2 /\ last.before[3].id = 2
    /\ last.before[1].assigned_clinics # last.before[3].assigned_clinics
    /\ doctors[1] = last.result /\ doctors[3] = last.result
    /\ doctors[2] = last.before[2]

\* C20: an I/O failure is a hard failure for the caller: a get_all whose
\* read failed does not return an empty list, and an add, update or delete
\* whose rewrite of the file failed does not return as if it had succeeded.
C20_IOFailurePropagated ==
    [][ /\ (last'.op = "get_all" /\ last'.read = "error") => last'.result # <<>>
        /\ (last'.op \in {"add", "update", "delete"} /\ last'.file_result = "False")
              => last'.result \in {"False", "Exception"}
      ]_vars

\* C21: get_all on an absent or empty file returns the empty list (it
\* does not raise; the absent file is created empty), and get_by_id of an
\* id that no row of the file has returns None.
C21_EmptyAndNotFound ==
    [][ /\ ( /\ last'.op = "get_all"
             /\ \/ last'.read = "absent"
                \/ last'.read = "ok" /\ doctors = <<>> )
           => (last'.result = <<>> /\ doctors' = <<>>)
        /\ ( /\ last'.op = "get_by_id"
             /\ \/ last'.read = "absent"
                \/ last'.read = "ok" /\ last'.id \notin RowIds(doctors) )
           => last'.result = None
      ]_vars

\* get_by_id(3) on a file whose rows have ids 1 and 2 returned None
C21_NoneForMissingId ==
    /\ last.op = "get_by_id" /\ last.id = 3 /\ last.read = "ok"
    /\ RowIds(last.before) = {1, 2} /\ doctors = last.before
    /\ last.result = None

----------------------------------------------------------------------------
(* Properties of the availability queries under SpecQuery *)

C23_BookedIffScheduledRow ==
    \A d \in Doctors, dt \in QueryDates, s \in ValidSlots :
        AppointmentRepository_is_slot_booked(appointments, d, dt, s)
            <=> \E i \in 1..Len(appointments) :
                    /\ appointments[i].doctor_id = d
                    /\ appointments[i].date = dt
                    /\ appointments[i].time_slot = s
                    /\ appointments[i].status = Scheduled

\* slot 16 of doctor 2 is booked at clinic 2 by user 2, so a query for clinic
\* 1 leaves it out; the cancelled row of slot 2 on date 2 books nothing
C23_BookedAtOtherClinic ==
    /\ last.op = "get_available_time_slots"
    /\ last.doctor_id = Some(2) /\ last.clinic_id = Some(1) /\ last.date = Some(1)
    /\ \E i \in 1..Len(appointments) :
           /\ appointments[i].doctor_id = 2 /\ appointments[i].clinic_id = 2
           /\ appointments[i].user_id = 2 /\ appointments[i].time_slot = 16
           /\ appointments[i].date = 1 /\ appointments[i].status = Scheduled
    /\ MaskIncludes(schedules, 2, 1, 16)
    /\ \A i \in 1..Len(last.result) : last.result[i] # 16
    /\ AppointmentRepository_is_slot_booked(appointments, 2, 1, 16)
    /\ \E i \in 1..Len(appointments) :
           /\ appointments[i].doctor_id = 2 /\ appointments[i].date = 2
           /\ appointments[i].time_slot = 2 /\ appointments[i].status = CancelledByPatient
    /\ ~AppointmentRepository_is_slot_booked(appointments, 2, 2, 2)

\* the rows of the schedule file for (doctor, clinic)
RowsOfPair(scheds, doctor_id, clinic_id) ==
    {i \in 1..Len(scheds) : scheds[i].doctor_id = doctor_id /\ scheds[i].clinic_id = clinic_id}

AddedRows(before, after) == SubSeq(after, Len(before) + 1, Len(after))

\* C25: the first availability query for a (doctor, clinic) pair without a
\* schedule row creates exactly one row, with the mask ffff; a query for a
\* pair that has a row creates none; no sequence of queries leaves two rows
\* for one pair.
C25_LazyDefaultRowOncePerPair ==
    /\ [](\A d \in Doctors, c \in Clinics : Cardinality(RowsOfPair(schedules, d, c)) <= 1)
    /\ [][ /\ Len(schedules') >= Len(schedules)
           /\ SubSeq(schedules', 1, Len(schedules)) = schedules
           /\ \A i \in 1..Len(AddedRows(schedules, schedules')) :
                  LET row == AddedRows(schedules, schedules')[i]
                  IN  /\ row.time_slots = <<"f", "f", "f", "f">>
                      /\ RowsOfPair(schedules, row.doctor_id, row.clinic_id) = {}
           /\ last'.op = "get_available_time_slots" =>
                  LET d == last'.doctor_id[1]
                      c == last'.clinic_id[1]
                  IN  IF RowsOfPair(schedules, d, c) = {}
                      THEN /\ Len(schedules') = Len(schedules) + 1
                           /\ RowsOfPair(schedules', d, c) = {Len(schedules')}
                      ELSE schedules' = schedules
         ]_vars

\* the file began with two rows for doctor 2; a first query created row 3 for
\* doctor 1 at clinic 1, and the query just answered for that pair created
\* none
C25_CreatedOnceThenReused ==
    /\ last.op = "get_available_time_slots"
    /\ last.doctor_id = Some(1) /\ last.clinic_id = Some(1)
    /\ Len(schedules) = 3
    /\ schedules[3] = ScheduleRow(3, 1, 1, <<"f", "f", "f", "f">>)
    /\ schedules[1].doctor_id = 2 /\ schedules[2].doctor_id = 2
    /\ last.before = schedules

\* C26 (as stated): listing the available slots changes no row of the
\* appointments, schedules, doctors, clinics or notifications files.
C26_ListingChangesNoStore ==
    [][ last'.op \in {"get_available_slots_data", "get_available_time_slots"}
            => /\ appointments' = appointments
               /\ schedules' = schedules
               /\ doctors' = doctors
               /\ clinics' = clinics
               /\ notifications' = notifications
      ]_vars

\* the values an optional argument of the listing asks for
Requested(arg, all) == IF arg = None THEN all ELSE {arg[1]}

\* the doctor is in the doctors file, the clinic in the clinics file, and the
\* clinic is one of the doctor's assigned clinics
AssignedTo(doctor_id, clinic_id) ==
    /\ \E i \in 1..Len(doctors) :
           /\ doctors[i].id = doctor_id
           /\ \E k \in 1..Len(doctors[i].assigned_clinics) :
                  doctors[i].assigned_clinics[k] = clinic_id
    /\ \E i \in 1..Len(clinics) : clinics[i].id = clinic_id

\* the (doctor, clinic, date, slot) combinations the listing is to contain,
\* on the files given
ExpectedSlots(appts, scheds, clinic_id, doctor_id, date) ==
    {x \in [date : Requested(date, (now \div (24 * 60))..((now \div (24 * 60)) + DateRangeDays - 1)),
            time_slot : ValidSlots,
            doctor_id : Requested(doctor_id, RowIds(doctors)),
            clinic_id : Requested(clinic_id, RowIds(clinics))] :
        /\ AssignedTo(x.doctor_id, x.clinic_id)
        /\ AppointmentRepository_is_slot_available(
               appts, scheds, x.doctor_id, x.clinic_id, x.date, x.time_slot) = "True"}

\* doctor-major, then clinic, then date, then slot
ListedBefore(x, y) ==
    \/ x.doctor_id < y.doctor_id
    \/ x.doctor_id = y.doctor_id /\ x.clinic_id < y.clinic_id
    \/ x.doctor_id = y.doctor_id /\ x.clinic_id = y.clinic_id /\ x.date < y.date
    \/ /\ x.doctor_id = y.doctor_id /\ x.clinic_id = y.clinic_id /\ x.date = y.date
       /\ x.time_slot < y.time_slot

----------------------------------------------------------------------------
(* Properties of the slot and mask conversions under SpecCodec *)

\* the elements of a set of numbers in ascending order
RECURSIVE Ascending(_)
Ascending(S) == IF S = {} THEN <<>> ELSE <<SetMin(S)>> \o Ascending(S \ {SetMin(S)})

\* C28: decoding the mask that encodes one valid slot yields that slot
\* alone, and decoding the encoding of any list of valid slots yields the
\* set of those slots in ascending order.
C28_RoundTrip ==
    (last.op = "round_trip"
        /\ \A i \in 1..Len(last.time_slots) : last.time_slots[i] \in ValidSlots)
    => /\ last.result = Ascending({last.time_slots[i] : i \in 1..Len(last.time_slots)})
       /\ Len(last.time_slots) = 1 => last.result = last.time_slots

\* the list 16, 1, 8 is encoded as 8081 and decoded as 1, 8, 16
C28_UnorderedListSorted ==
    /\ last.op = "round_trip"
    /\ last.time_slots = <<16, 1, 8>>
    /\ last.mask = <<"8", "0", "8", "1">>
    /\ last.result = <<1, 8, 16>>

\* C29: a schedule whose mask is ffff reports each of the 16 slots
\* available, and a schedule whose mask is 0 or empty reports none.
C29_AllOrNone ==
    /\ (last.op = "is_available" /\ last.index \in 0..15) =>
           /\ last.mask = <<"f", "f", "f", "f">> => last.result = "True"
           /\ last.mask \in {<<>>, <<"0">>, <<"0", "0", "0", "0">>} => last.result = "False"
    /\ last.op = "hex_to_time_slots" =>
           /\ last.mask = <<"f", "f", "f", "f">> => last.result = [i \in 1..16 |-> i]
           /\ last.mask \in {<<>>, <<"0">>, <<"0", "0", "0", "0">>} => last.result = <<>>

\* the last slot of a full mask is reported available
C29_LastSlotOfFullMask ==
    /\ last.op = "is_available"
    /\ last.mask = <<"f", "f", "f", "f">>
    /\ last.index = 15
    /\ last.result = "True"

\* C30 (as stated): the bit of slot s, 0 <= s <= 15, is 1 << (15 - s), and
\* encoding or testing a slot outside 0..15 fails instead of being ignored
\* or answered.
C30_MsbFirstAndInvalidSlot ==
    /\ (last.op = "round_trip" /\ Len(last.time_slots) = 1) =>
           IF last.time_slots[1] \in 0..15
           THEN HexToInt(last.mask) = 2 ^ (15 - last.time_slots[1])
           ELSE last.raised # "none"
    /\ last.op = "is_available" =>
           IF last.index \in 0..15
           THEN last.raised = "none"
                /\ ( (last.result = "True") <=>
                       ((HexToInt(last.mask) \div (2 ^ (15 - last.index))) % 2 = 1) )
           ELSE last.raised # "none"

\* the start the slot-to-hour mapping with a lunch gap gives the n-th slot of
\* the day: six half hours from 09:00, ten from 13:00
StartWithLunchGap(n) ==
    IF n <= 6 THEN <<9 + ((n - 1) \div 2), 30 * ((n - 1) % 2)>>
    ELSE <<13 + ((n - 7) \div 2), 30 * ((n - 7) % 2)>>

\* C31 (as stated): the start time used for the lead-time check follows the
\* mapping with a lunch gap: the first slot starts at 09:00, the sixth at
\* 11:30, the seventh at 13:00, the sixteenth at 17:30, and no slot starts
\* between 12:00 and 13:00.
C31_StartTimesWithLunchGap ==
    (last.op = "get_time_from_slot" /\ last.index \in ValidSlots)
        => /\ last.result = StartWithLunchGap(last.index)
           /\ last.result[1] # 12

\* the mask stored for (doctor, clinic), or the empty mask without a row
MaskOfPair(scheds, doctor_id, clinic_id) ==
    IF RowsOfPair(scheds, doctor_id, clinic_id) = {} THEN <<>>
    ELSE scheds[SetMin(RowsOfPair(scheds, doctor_id, clinic_id))].time_slots

\* C32 (as stated): one 0-based slot index is used throughout: the index
\* given to AppointmentRepository.is_slot_available is the index whose bit
\* DoctorSchedule.is_available tests, and the index the listing returns, with
\* no offset between appointment, listing and schedule.
C32_OneIndexNoOffset ==
    /\ \A d \in Doctors, c \in Clinics, dt \in QueryDates, s \in 0..15 :
           (AppointmentRepository_is_slot_available(appointments, schedules, d, c, dt, s) = "True")
               <=> ( /\ ~AppointmentRepository_is_slot_booked(appointments, d, dt, s)
                     /\ DoctorSchedule_is_available(MaskOfPair(schedules, d, c), s) = "True" )
    /\ last.op = "get_available_time_slots" =>
           \A i \in 1..Len(last.result) :
               DoctorSchedule_is_available(
                   MaskOfPair(schedules, last.doctor_id[1], last.clinic_id[1]),
                   last.result[i]) = "True"

----------------------------------------------------------------------------
(* Properties of bookings and held objects under SpecBook *)

C36_CancelTrueAtMostOnce ==
    [][ (CancelCall /\ last'.result = "True")
            => \A i \in 1..Len(appointments) :
                   appointments[i].id = last'.id
                       => ~Appointment_is_cancelled(appointments[i])
      ]_vars

----------------------------------------------------------------------------
(* Properties of the list-valued fields under SpecLists *)

\* C38: after add or update of a doctor, get_by_id of that doctor yields
\* the assigned_clinics list it was saved with (integers, same order) and
\* the specialisation list it was saved with, the empty list included.
C38_ListsRoundTrip ==
    last.op \in {"add_doctor", "update_doctor"}
        => LET back == DoctorRepository_get_by_id(doctors, last.doctor.id)
           IN  /\ back # None
               /\ back[1].assigned_clinics = last.doctor.assigned_clinics
               /\ back[1].specialisation = last.doctor.specialisation

\* a doctor was added with a two-digit clinic id and two specialisations
C38_TwoItemListsAdded ==
    /\ last.op = "add_doctor"
    /\ last.doctor.assigned_clinics = <<12, 2>>
    /\ Len(last.doctor.specialisation) = 2

----------------------------------------------------------------------------
(* Properties of clinic and doctor management under SpecManage *)

\* the clinic ids some doctor of the file is assigned to
AssignedClinicIds(rows) ==
    UNION {LET assigned == Doctor_from_dict(FileUtil_read_row(rows[i])).assigned_clinics
           IN  {assigned[k] : k \in 1..Len(assigned)} : i \in 1..Len(rows)}

ClinicIds(rows) == {rows[i].id : i \in 1..Len(rows)}

\* C39: after any sequence of add clinic, delete clinic, add clinic to
\* doctor and remove clinic from doctor, every clinic id in a doctor's
\* assigned_clinics is the id of a clinic of the clinics file; delete_clinic
\* leaves the clinics file alone while a doctor is assigned to the clinic,
\* and a clinic is assigned only if it is in the clinics file.
C39_AssignedClinicsExist ==
    /\ [](AssignedClinicIds(doctors) \subseteq ClinicIds(clinics))
    /\ [][ /\ (last'.op = "delete_clinic" /\ last'.id \in AssignedClinicIds(doctors))
               => clinics' = clinics
           /\ (last'.op = "add_clinic_to_doctor" /\ last'.id \notin ClinicIds(clinics))
               => doctors' = doctors
         ]_vars

\* deleting clinic 1 was refused because a doctor is assigned to it
C39_DeleteRefusedWhileAssigned ==
    /\ last.op = "delete_clinic"
    /\ last.result = "refused"
    /\ last.id \in AssignedClinicIds(doctors)

----------------------------------------------------------------------------
(* Properties of the schedule mask under SpecMask *)

\* the call was made with an index that 1 << index accepts
SetterCall(op) == last.op = op /\ last.index >= 0

\* is_available gives the same answer on both masks for every index but i
SameElsewhere(a, b, i) ==
    \A j \in 0..16 :
        j # i => DoctorSchedule_is_available(a, j) = DoctorSchedule_is_available(b, j)

\* the mask is written as format(value, 'x') writes it
AsFormatted(time_slots) ==
    time_slots # <<>> /\ time_slots = IntToHex(HexToInt(time_slots))

MaskValue(time_slots) == IF time_slots = <<>> THEN 0 ELSE HexToInt(time_slots)

\* set_unavailable(i) directly after set_available(i), bit i clear before both
SetThenCleared ==
    /\ SetterCall("set_unavailable")
    /\ last.prev_op = "set_available"
    /\ DoctorSchedule_is_available(last.before_prev, last.index) = "False"

====
